---- MODULE Spec2Model ----
(***************************************************************************)
(* Model of the sequence pool sampling and the domain assignment search of *)
(* backend/core/generator.py (SequenceGenerator), with the cross-dimer     *)
(* measurement of backend/core/thermodynamics.py and the failure handling  *)
(* of backend/api/routes.py (generate_design).                             *)
(*                                                                         *)
(* A nucleotide sequence is a tuple of one-character strings.  The empty   *)
(* tuple is Python's empty string "".                                      *)
(***************************************************************************)
EXTENDS Naturals, Integers, Sequences, FiniteSets, TLC

(***************************************************************************)
(* Bounds of the model.                                                    *)
(***************************************************************************)
\* most domains in one design call with every combination of isComplement and
\* complementOf
MaxDomains == 2
\* most plain domains (no flag, no reference) in one design call
MaxPlainDomains == 3
\* most complement domains that follow the plain domains of a design call
MaxComplements == 2
\* most calls of design_domain_sequences on one SequenceGenerator
MaxCalls == 2
\* largest count handed to get_sequences_from_redis
MaxCount == 3
\* draws per domain in _design_with_cross_validation: the source sets 50, the
\* model runs the same loop with a small number of draws
max_attempts == 2

\* longest sequence handed to a reverse-complement implementation
MaxSeqLen == 3

\* longest sequence of the exhaustive inputs of the Filter Rule Engine
FilterMaxLen == 6

\* Pool Builder: the quota per length (the source sets 1000), the attempts
\* allowed per sequence of the quota (the source sets 1000), the runs of main
max_sequences_per_length == 2

AttemptMultiplier == 2

MaxRuns == 2

\* most domains handed to validate_strand, and most domain ids of a strand
MaxValidatorDomains == 2

\* most strands handed to validate_cross_interactions
MaxStrands == 3

(***************************************************************************)
(* ValidationSettings() defaults, kcal/mol and bases.                      *)
(***************************************************************************)
crossDimerDgMin == -5
threePrimeCrossDimerDgMin == -2
threePrimeLength == 6
\* calculate_cross_dimer_delta_g answers 0.0 below this length
MinDimerLength == 3

\* complementOf = None
NoDomain == 0

(***************************************************************************)
(* The sequences the pool may hold, and the lengths requested.             *)
(***************************************************************************)
\* S3 is the reverse complement of S1: a pool may hold both strands of a duplex
S1 == <<"A", "C", "G", "T", "T", "G", "A">>
S2 == <<"G", "A", "T", "C", "C", "A", "T">>
S3 == <<"T", "C", "A", "A", "C", "G", "T">>
T1 == <<"C", "A", "G", "T", "T", "A", "C", "G">>

Lengths == {7, 8}

Universe == [l \in Lengths |-> IF l = 7 THEN {S1, S2, S3} ELSE {T1}]

AllSequences == UNION {Universe[l] : l \in Lengths}

\* values the Oracle's heterodimer dG takes in the model: below both floors,
\* between the two floors, above both
DgValues == {-6, -3, 0}

(***************************************************************************)
(* Pure helpers.                                                           *)
(***************************************************************************)
\* str.upper() on one character
Upper(b) ==
    CASE b = "a" -> "A"
      [] b = "c" -> "C"
      [] b = "g" -> "G"
      [] b = "t" -> "T"
      [] b = "n" -> "N"
      [] OTHER -> b

UpperSeq(s) == [i \in 1..Len(s) |-> Upper(s[i])]

\* the mutant looks the base up as it is written: complement.get(base, base)
ComplementBaseAsWritten(b) ==
    CASE b = "A" -> "T"
      [] b = "T" -> "A"
      [] b = "G" -> "C"
      [] b = "C" -> "G"
      [] b = "N" -> "N"
      [] OTHER -> b

\* complement.get(base.upper(), base)
ComplementBase(b) ==
    CASE Upper(b) = "A" -> "T"
      [] Upper(b) = "T" -> "A"
      [] Upper(b) = "G" -> "C"
      [] Upper(b) = "C" -> "G"
      [] Upper(b) = "N" -> "N"
      [] OTHER -> b

\* SequenceGenerator._reverse_complement (generator.py)
reverse_complement(s) == [i \in 1..Len(s) |-> ComplementBase(s[Len(s) + 1 - i])]

\* reverse_complement (models.py): the same dictionary and the same lookup
models_reverse_complement(s) == [i \in 1..Len(s) |-> ComplementBase(s[Len(s) + 1 - i])]

\* ThermodynamicCalculator._reverse_complement (thermodynamics.py): the same again
thermodynamics_reverse_complement(s) == [i \in 1..Len(s) |-> ComplementBase(s[Len(s) + 1 - i])]

\* seq[-length:] if len(seq) >= length else seq
ThreePrime(s, length) ==
    IF Len(s) >= length THEN SubSeq(s, Len(s) - length + 1, Len(s)) ELSE s

\* the set of the elements of a list
Range(f) == {f[i] : i \in DOMAIN f}

\* all lists without repetition of exactly k elements of S (random.sample)
Samples(S, k) ==
    {f \in [1..k -> S] : \A i, j \in 1..k : i # j => f[i] # f[j]}

Min(a, b) == IF a <= b THEN a ELSE b

(***************************************************************************)
(* get_sequences_from_redis: the lists it may return.                      *)
(***************************************************************************)
\* redis.smembers(key): the empty set for a key that does not exist
SMembers(store, length) == IF length \in DOMAIN store THEN store[length] ELSE {}

\* the mutant keeps the excluded sequences
AvailableUnfiltered(store, length, exclude) == SMembers(store, length)

\* available_sequences after the exclusion filter
Available(store, length, exclude) ==
    {seq \in SMembers(store, length) : seq \notin exclude}

\* the mutant omits min(count, len(available)): random.sample raises for a
\* count above the population and the handler answers []
SampleWithoutMin(store, length, count, exclude) ==
    LET available == Available(store, length, exclude)
    IN  IF available = {} \/ count > Cardinality(available) THEN {<<>>}
        ELSE Samples(available, count)

get_sequences_from_redis(store, length, count, exclude) ==
    LET available == Available(store, length, exclude)
    IN  IF available = {} THEN {<<>>}
        ELSE Samples(available, Min(count, Cardinality(available)))

(***************************************************************************)
(* The Thermodynamic Oracle.  primer3's heterodimer dG is a fixed function *)
(* of the two upper-cased strings; the model fixes the value of a pair the *)
(* first time the code measures it and keeps it in dg from then on.  A     *)
(* pair that is not in dg has not been measured: the Oracle may answer any *)
(* value for it.                                                           *)
(***************************************************************************)
\* the Oracle input of one measurement: primer3 gets the upper-cased strings
OracleKey(seq1, seq2) == <<UpperSeq(seq1), UpperSeq(seq2)>>

\* the tables that agree with table and also fix the pairs of keys
Fixing(table, keys) ==
    {table @@ f : f \in [keys \ DOMAIN table -> DgValues]}

\* ThermodynamicCalculator.calculate_cross_dimer_delta_g: the answers the Oracle
\* may give, each with the table after the measurement
calculate_cross_dimer_delta_g(table, seq1, seq2) ==
    IF Len(seq1) < MinDimerLength \/ Len(seq2) < MinDimerLength
    THEN {[table |-> table, value |-> 0]}
    ELSE {[table |-> t, value |-> t[OracleKey(seq1, seq2)]] :
            t \in Fixing(table, {OracleKey(seq1, seq2)})}

\* ThermodynamicCalculator.calculate_three_prime_cross_dimer_delta_g
calculate_three_prime_cross_dimer_delta_g(table, seq1, seq2, length) ==
    calculate_cross_dimer_delta_g(table, ThreePrime(seq1, length), ThreePrime(seq2, length))

\* the mutant holds the full-length measurement to the 3' floor
FullLengthRejectsAtThreePrimeFloor(cross_dimer_dg) == cross_dimer_dg < threePrimeCrossDimerDgMin

\* cross_dimer_dg < settings.crossDimerDgMin
FullLengthRejects(cross_dimer_dg) == cross_dimer_dg < crossDimerDgMin

\* the mutant compares the 3' value with the full-length floor
ThreePrimeRejectsAtFullFloor(three_prime_cross_dg) == three_prime_cross_dg < crossDimerDgMin

\* three_prime_cross_dg < settings.threePrimeCrossDimerDgMin
ThreePrimeRejects(three_prime_cross_dg) == three_prime_cross_dg < threePrimeCrossDimerDgMin

\* SequenceGenerator.check_cross_dimer_interactions from existing_sequences[k] on:
\* the loop returns False at the first measurement that rejects
RECURSIVE CheckFrom(_, _, _, _)
CheckFrom(table, new_sequence, existing_sequences, k) ==
    IF k > Len(existing_sequences)
    THEN {[table |-> table, is_valid |-> TRUE]}
    ELSE UNION {
            IF FullLengthRejects(full.value)
            THEN {[table |-> full.table, is_valid |-> FALSE]}
            ELSE UNION {
                    IF ThreePrimeRejects(tp.value)
                    THEN {[table |-> tp.table, is_valid |-> FALSE]}
                    ELSE CheckFrom(tp.table, new_sequence, existing_sequences, k + 1) :
                    tp \in calculate_three_prime_cross_dimer_delta_g(
                              full.table, new_sequence, existing_sequences[k],
                              threePrimeLength)} :
            full \in calculate_cross_dimer_delta_g(table, new_sequence,
                                                   existing_sequences[k])}

check_cross_dimer_interactions(table, new_sequence, existing_sequences) ==
    CheckFrom(table, new_sequence, existing_sequences, 1)

(***************************************************************************)
(* State.                                                                  *)
(***************************************************************************)
VARIABLES
    pool,               \* redis: length -> set of sequences ("sequences:length:L")
    dg,                 \* the Oracle's heterodimer dG, for the pairs fixed so far
    used_sequences,     \* SequenceGenerator.used_sequences
    request,            \* the domains a caller asks to design (sequences empty)
    domains,            \* the Domain objects handed to design_domain_sequences
    pc,                 \* position of the caller and of the design call
    idx,                \* position of the for loop over (forward) domains
    attempt,            \* draws made so far for the current domain
    assigned_sequences, \* local list of _design_with_cross_validation
    sequences,          \* the list the latest get_sequences_from_redis returned
    design_success,     \* what design_domain_sequences returned
    error_log,          \* the logger.error records of the current call
    response,           \* what generate_design answers
    calls,              \* calls of design_domain_sequences made on this generator
    sample_args,        \* the arguments of the latest direct sample call
    call_args,          \* the arguments of the latest call of a pure function, or
                        \* what a request to generate_design holds beside its domains
    call_result,        \* what that call returned
    thermo,             \* the Oracle's answers for single sequences, fixed so far
    workers,            \* Pool Builder: length -> the worker's work item and locals
    builder_pc,         \* Pool Builder: position of main
    runs                \* Pool Builder: runs of main completed

\* the state of the pure-function calls, and of the Pool Builder
call_vars == <<call_args, call_result>>

builder_vars == <<thermo, workers, builder_pc, runs>>

vars == <<pool, dg, used_sequences, request, domains, pc, idx, attempt,
          assigned_sequences, sequences, design_success, error_log, response,
          calls, sample_args, call_vars, builder_vars>>

NoCall == [op |-> "none"]

\* no pure function was called, and the Pool Builder has not run
NothingElseRan ==
    /\ call_args = NoCall
    /\ call_result = NoCall
    /\ thermo = <<>>
    /\ workers = <<>>
    /\ builder_pc = "idle"
    /\ runs = 0

NoArgs == [length |-> 0, count |-> 0, exclude |-> {}]

NoResponse == [pending |-> TRUE]

(***************************************************************************)
(* Inputs.                                                                 *)
(***************************************************************************)
\* the pools redis may hold: any subset of the universe per length
Pools == {p \in [Lengths -> SUBSET AllSequences] : \A l \in Lengths : p[l] \subseteq Universe[l]}

\* Domain(id, name, length, sequence="", role, isComplement, complementOf);
\* ids are the positions, as generate_design numbers domains without an id
DomainLists(n) ==
    {[i \in 1..n |-> [id |-> i, length |-> f[i].length, sequence |-> <<>>,
                      isComplement |-> f[i].isComplement,
                      complementOf |-> f[i].complementOf]] :
        f \in [1..n -> [length : Lengths, isComplement : BOOLEAN,
                        complementOf : {NoDomain} \cup 1..n]]}

\* lists of n domains with isComplement False and complementOf None
PlainLists(n) ==
    {[i \in 1..n |-> [id |-> i, length |-> f[i], sequence |-> <<>>,
                      isComplement |-> FALSE, complementOf |-> NoDomain]] :
        f \in [1..n -> Lengths]}

\* m complement domains (isComplement True), with ids n+1..n+m, each the
\* complement of one of the domains 1..n
ComplementLists(n, m) ==
    {[i \in 1..m |-> [id |-> n + i, length |-> f[i].length, sequence |-> <<>>,
                      isComplement |-> TRUE, complementOf |-> f[i].complementOf]] :
        f \in [1..m -> [length : Lengths, complementOf : 1..n]]}

\* plain domains followed by complements of some of them
ListsWithComplements ==
    UNION {{plain \o complements :
                plain \in PlainLists(n), complements \in ComplementLists(n, m)} :
           n \in 0..MaxPlainDomains, m \in 0..MaxComplements}

Requests == ListsWithComplements \cup UNION {DomainLists(n) : n \in 0..MaxDomains}

(***************************************************************************)
(* design_domain_sequences.                                                *)
(***************************************************************************)
\* SequenceGenerator.has_complement_domains
has_complement_domains(ds) ==
    \E i \in 1..Len(ds) : ds[i].isComplement \/ ds[i].complementOf # NoDomain

\* positions of [d for d in domains if not d.isComplement], in order
ForwardPositions(ds) ==
    LET F[i \in 0..Len(ds)] ==
            IF i = 0 THEN <<>>
            ELSE IF ds[i].isComplement THEN F[i - 1] ELSE Append(F[i - 1], i)
    IN  F[Len(ds)]

\* position of next((d for d in domains if d.complementOf == id), None); 0 for None
ComplementPosition(ds, id) ==
    IF \E j \in 1..Len(ds) : ds[j].complementOf = id
    THEN CHOOSE j \in 1..Len(ds) :
            /\ ds[j].complementOf = id
            /\ \A k \in 1..(j - 1) : ds[k].complementOf # id
    ELSE 0

\* the mutant takes the selected sequences out of the set (SPOP)
StoreAfterPop(store, length, selected) ==
    [store EXCEPT ![length] = @ \ Range(selected)]

\* the store after get_sequences_from_redis: self.redis.smembers(redis_key)
\* reads the set, and nothing is written
StoreAfterSample(store, length, selected) == store

\* the mutant commits a sequence without marking it used
CommittedKeepsUsed(used, committed) == used

\* self.used_sequences.add(sequences[0]) / self.used_sequences.add(candidate_sequence)
\* on a commit
CommittedMarksUsed(used, committed) == used \cup {committed}

\* the mutant shares one set between the generators: a sequence an earlier
\* generator marked is still in it
SharedUsedSequences == {S1}

\* SequenceGenerator.__init__: self.used_sequences = set()
InitialUsedSequences == {}

\* the pools of the design calls: every length filled, or length 8 missing
DesignPools == {Universe, [Universe EXCEPT ![8] = {}]}

Init ==
    /\ pool \in DesignPools
    /\ dg = <<>>
    /\ used_sequences = InitialUsedSequences
    /\ request \in Requests
    /\ domains = <<>>
    /\ pc = "idle"
    /\ idx = 0
    /\ attempt = 0
    /\ assigned_sequences = <<>>
    /\ sequences = <<>>
    /\ design_success = "none"
    /\ error_log = <<>>
    /\ response = NoResponse
    /\ calls = 0
    /\ sample_args = NoArgs
    /\ NothingElseRan

\* design_domain_sequences(domains): the mode is picked, the loop starts
DesignStart ==
    /\ calls' = calls + 1
    /\ domains' = request
    /\ pc' = IF has_complement_domains(request) THEN "complements" ELSE "cross_validation"
    /\ idx' = 1
    /\ attempt' = 0
    /\ assigned_sequences' = <<>>
    /\ sequences' = <<>>
    /\ design_success' = "none"
    /\ error_log' = <<>>
    /\ response' = NoResponse
    /\ UNCHANGED <<pool, dg, used_sequences, request, sample_args>>

\* the first call on a new SequenceGenerator, as generate_design makes it
FirstCall ==
    /\ pc = "idle"
    /\ DesignStart
    /\ UNCHANGED <<call_vars, builder_vars>>

\* the caller asks the same generator again for the same domains
LaterCall ==
    /\ pc = "responded"
    /\ calls < MaxCalls
    /\ DesignStart
    /\ UNCHANGED <<call_vars, builder_vars>>

(***************************************************************************)
(* _design_with_complements: one iteration of the loop over the forward    *)
(* domains, and the return after the loop.                                 *)
(***************************************************************************)
\* the domains after domain i took seq and its complement, if any, the reverse complement
AssignWithComplement(ds, i, seq) ==
    LET assigned == [ds EXCEPT ![i].sequence = seq]
        c == ComplementPosition(ds, ds[i].id)
    IN  IF c # 0
        THEN [assigned EXCEPT ![c].sequence = reverse_complement(assigned[i].sequence)]
        ELSE assigned

ComplementsAssign ==
    /\ pc = "complements"
    /\ idx <= Len(ForwardPositions(domains))
    /\ LET i == ForwardPositions(domains)[idx]
       IN  \E drawn \in get_sequences_from_redis(pool, domains[i].length, 1, used_sequences) :
            /\ drawn # <<>>
            /\ sequences' = drawn
            /\ domains' = AssignWithComplement(domains, i, drawn[1])
            /\ used_sequences' = CommittedMarksUsed(used_sequences, drawn[1])
            /\ pool' = StoreAfterSample(pool, domains[i].length, drawn)
            /\ idx' = idx + 1
    /\ UNCHANGED <<dg, request, pc, attempt, assigned_sequences, design_success,
                   error_log, response, calls, sample_args>>
    /\ UNCHANGED <<call_vars, builder_vars>>

ComplementsFail ==
    /\ pc = "complements"
    /\ idx <= Len(ForwardPositions(domains))
    /\ LET i == ForwardPositions(domains)[idx]
       IN  /\ <<>> \in get_sequences_from_redis(pool, domains[i].length, 1, used_sequences)
           /\ sequences' = <<>>
           /\ error_log' = Append(error_log,
                                  [msg |-> "Failed to get sequence for domain",
                                   domain |-> domains[i].id,
                                   length |-> domains[i].length])
    /\ design_success' = "false"
    /\ pc' = "returned"
    /\ UNCHANGED <<pool, dg, used_sequences, request, domains, idx, attempt,
                   assigned_sequences, response, calls, sample_args>>
    /\ UNCHANGED <<call_vars, builder_vars>>

ComplementsReturn ==
    /\ pc = "complements"
    /\ idx > Len(ForwardPositions(domains))
    /\ design_success' = "true"
    /\ pc' = "returned"
    /\ sequences' = <<>>
    /\ UNCHANGED <<pool, dg, used_sequences, request, domains, idx, attempt,
                   assigned_sequences, error_log, response, calls, sample_args>>
    /\ UNCHANGED <<call_vars, builder_vars>>

(***************************************************************************)
(* _design_with_cross_validation: one iteration of the attempt loop        *)
(* (Draw, Check, then Commit or Reject), and the return after the loop.    *)
(***************************************************************************)
\* the record of "Failed to find valid sequence for domain {name} after {max_attempts} attempts"
FailedToFind(d) ==
    [msg |-> "Failed to find valid sequence for domain", domain |-> d.id,
     attempts |-> max_attempts]

\* the mutant does not mark the rejected candidate
RejectedKeepsUsed(used, candidate_sequence) == used

\* self.used_sequences.add(candidate_sequence) on the rejected branch
RejectedMarksUsed(used, candidate_sequence) == used \cup {candidate_sequence}

\* the draw finds no sequence: break, then the failure after the loop
CrossValidationBreak ==
    /\ pc = "cross_validation"
    /\ idx <= Len(domains)
    /\ attempt < max_attempts
    /\ <<>> \in get_sequences_from_redis(pool, domains[idx].length, 1, used_sequences)
    /\ sequences' = <<>>
    /\ error_log' = error_log \o
            <<[msg |-> "No available sequences for domain", domain |-> domains[idx].id,
               length |-> domains[idx].length],
              FailedToFind(domains[idx])>>
    /\ design_success' = "false"
    /\ pc' = "returned"
    /\ UNCHANGED <<pool, dg, used_sequences, request, domains, idx, attempt,
                   assigned_sequences, response, calls, sample_args>>
    /\ UNCHANGED <<call_vars, builder_vars>>

\* the candidate fails a pairwise check: marked used, next attempt; after the
\* last attempt the loop ends without a sequence and the call fails
CrossValidationReject ==
    /\ pc = "cross_validation"
    /\ idx <= Len(domains)
    /\ attempt < max_attempts
    /\ assigned_sequences # <<>>
    /\ \E drawn \in get_sequences_from_redis(pool, domains[idx].length, 1, used_sequences) :
        /\ drawn # <<>>
        /\ \E check \in check_cross_dimer_interactions(dg, drawn[1], assigned_sequences) :
            /\ ~check.is_valid
            /\ dg' = check.table
        /\ sequences' = drawn
        /\ used_sequences' = RejectedMarksUsed(used_sequences, drawn[1])
        /\ pool' = StoreAfterSample(pool, domains[idx].length, drawn)
    /\ attempt' = attempt + 1
    /\ IF attempt + 1 = max_attempts
       THEN /\ error_log' = Append(error_log, FailedToFind(domains[idx]))
            /\ design_success' = "false"
            /\ pc' = "returned"
       ELSE UNCHANGED <<error_log, design_success, pc>>
    /\ UNCHANGED <<request, domains, idx, assigned_sequences, response, calls,
                   sample_args>>
    /\ UNCHANGED <<call_vars, builder_vars>>

\* the mutant backtracks: it withdraws the sequence of the domain before
AssignSequenceBacktracking(ds, position, candidate_sequence) ==
    [k \in DOMAIN ds |->
        IF k = position THEN [ds[k] EXCEPT !.sequence = candidate_sequence]
        ELSE IF k = position - 1 THEN [ds[k] EXCEPT !.sequence = <<>>]
        ELSE ds[k]]

\* domain.sequence = candidate_sequence
AssignSequence(ds, position, candidate_sequence) ==
    [ds EXCEPT ![position].sequence = candidate_sequence]

\* the candidate passes every pairwise check (or nothing is assigned yet): committed
CrossValidationCommit ==
    /\ pc = "cross_validation"
    /\ idx <= Len(domains)
    /\ attempt < max_attempts
    /\ \E drawn \in get_sequences_from_redis(pool, domains[idx].length, 1, used_sequences) :
        /\ drawn # <<>>
        /\ \E check \in check_cross_dimer_interactions(dg, drawn[1], assigned_sequences) :
            /\ check.is_valid
            /\ dg' = check.table
        /\ sequences' = drawn
        /\ domains' = AssignSequence(domains, idx, drawn[1])
        /\ assigned_sequences' = Append(assigned_sequences, drawn[1])
        /\ used_sequences' = CommittedMarksUsed(used_sequences, drawn[1])
        /\ pool' = StoreAfterSample(pool, domains[idx].length, drawn)
    /\ idx' = idx + 1
    /\ attempt' = 0
    /\ UNCHANGED <<request, pc, design_success, error_log, response, calls,
                   sample_args>>
    /\ UNCHANGED <<call_vars, builder_vars>>

CrossValidationReturn ==
    /\ pc = "cross_validation"
    /\ idx > Len(domains)
    /\ design_success' = "true"
    /\ pc' = "returned"
    /\ sequences' = <<>>
    /\ UNCHANGED <<pool, dg, used_sequences, request, domains, idx, attempt,
                   assigned_sequences, error_log, response, calls, sample_args>>
    /\ UNCHANGED <<call_vars, builder_vars>>

(***************************************************************************)
(* The caller.                                                             *)
(***************************************************************************)
\* the mutant answers the domains whatever the design returned
DesignResponseAlways(success, ds) ==
    [success |-> TRUE, domains |-> ds]

\* generate_design after design_domain_sequences: the 400 answer, or the domains
DesignResponse(success, ds) ==
    IF success = "false"
    THEN [error |-> "Failed to design domain sequences",
          details |-> "Sequence generation failed - may be cross-dimer conflicts"]
    ELSE [success |-> TRUE, domains |-> ds]

Respond ==
    /\ pc = "returned"
    /\ response' = DesignResponse(design_success, domains)
    /\ pc' = "responded"
    /\ UNCHANGED <<pool, dg, used_sequences, request, domains, idx, attempt,
                   assigned_sequences, sequences, design_success, error_log, calls,
                   sample_args>>
    /\ UNCHANGED <<call_vars, builder_vars>>

\* SequenceGenerator.clear_used_sequences, between two calls
ClearUsedSequences ==
    /\ pc = "responded"
    /\ calls < MaxCalls
    /\ used_sequences # {}
    /\ used_sequences' = {}
    /\ UNCHANGED <<pool, dg, request, domains, pc, idx, attempt, assigned_sequences,
                   sequences, design_success, error_log, response, calls, sample_args>>
    /\ UNCHANGED <<call_vars, builder_vars>>

Next ==
    \/ FirstCall
    \/ ComplementsAssign
    \/ ComplementsFail
    \/ ComplementsReturn
    \/ CrossValidationBreak
    \/ CrossValidationReject
    \/ CrossValidationCommit
    \/ CrossValidationReturn
    \/ Respond

\* one design call on a new generator
Spec == Init /\ [][Next]_vars

\* a fully-orthogonal call (no domain has a complement relationship) run to its
\* end: the loops of the call are sequential code that keeps stepping until it
\* returns and the caller answers
OrthogonalSizes == {0, 1, 2, 3}

OrthogonalRequests == UNION {PlainLists(n) : n \in OrthogonalSizes}

InitOrthogonal == Init /\ request \in OrthogonalRequests

NextOrthogonal ==
    \/ FirstCall
    \/ CrossValidationBreak
    \/ CrossValidationReject
    \/ CrossValidationCommit
    \/ CrossValidationReturn
    \/ Respond

SpecOrthogonal == InitOrthogonal /\ [][NextOrthogonal]_vars /\ WF_vars(NextOrthogonal)

(***************************************************************************)
(* generate_design (routes.py), the whole handler: the availability check, *)
(* the design call on a new SequenceGenerator, the strands built from the  *)
(* domains, the validation, the answer.  The request's domains come        *)
(* without a fixedSequence; of the validation the model keeps whether      *)
(* primer3 raised in it.                                                   *)
(***************************************************************************)
\* the sizes of the domain lists of the requests, and the numbers of strands
RouteSizes == {0, 1, 2}

RouteRequests == UNION {PlainLists(n) : n \in RouteSizes}

\* the ids a strand may name: those of the domains, and one more
RouteDomainIds == {1, 2, 3}

\* strands_data: the id of a strand is its position (strand_data.get('id', i))
RouteStrandsData ==
    UNION {[1..n -> UNION {[1..m -> RouteDomainIds] : m \in RouteSizes}] : n \in RouteSizes}

\* required_lengths = [d.length for d in domains if not d.isComplement and not d.sequence]
required_lengths(ds) ==
    {ds[i].length : i \in {j \in DOMAIN ds : ~ds[j].isComplement /\ ds[j].sequence = <<>>}}

\* check_sequences_available and missing_lengths: the lengths whose set is empty
missing_lengths(store, ds) ==
    {length \in required_lengths(ds) : SMembers(store, length) = {}}

\* next((d for d in domains if d.id == domain_id), None): the position, 0 for None
DomainOfId(ds, domain_id) ==
    IF \E k \in DOMAIN ds : ds[k].id = domain_id
    THEN CHOOSE k \in DOMAIN ds :
            ds[k].id = domain_id /\ \A m \in 1..(k - 1) : ds[m].id # domain_id
    ELSE 0

\* the loop over domain_ids: strand_sequence += domain.sequence for the ids
\* that match a domain with a sequence
RECURSIVE strand_sequence(_, _, _)
strand_sequence(ds, domain_ids, k) ==
    IF k > Len(domain_ids) THEN <<>>
    ELSE LET at == DomainOfId(ds, domain_ids[k])
         IN  (IF at # 0 THEN ds[at].sequence ELSE <<>>)
                \o strand_sequence(ds, domain_ids, k + 1)

\* the Strand objects of the answer
BuildStrands(ds, strands_data) ==
    [i \in DOMAIN strands_data |->
        LET sequence == strand_sequence(ds, strands_data[i], 1)
        IN  [id |-> i - 1, domainIds |-> strands_data[i], sequence |-> sequence,
             validated |-> sequence # <<>>]]

\* lines 52-92: the request is parsed, the availability of the lengths is
\* checked, and design_domain_sequences is called on a new generator
GenerateDesignStart ==
    /\ pc = "idle"
    /\ call_args.op = "generate_design"
    /\ IF missing_lengths(pool, request) # {}
       THEN /\ response' = [error |-> "Sequences not available for required lengths",
                            missing_lengths |-> missing_lengths(pool, request)]
            /\ pc' = "responded"
            /\ UNCHANGED <<pool, dg, used_sequences, request, domains, idx, attempt,
                           assigned_sequences, sequences, design_success, error_log,
                           calls, sample_args>>
       ELSE IF request = <<>>
       THEN /\ pc' = "returned"
            /\ UNCHANGED <<pool, dg, used_sequences, request, domains, idx, attempt,
                           assigned_sequences, sequences, design_success, error_log,
                           response, calls, sample_args>>
       ELSE DesignStart
    /\ UNCHANGED <<call_vars, builder_vars>>

\* lines 94-221: the 400 answer of a failed design; else the strands, the
\* validation (a 500 answer when primer3 raises in it) and the answer
GenerateDesignRespond ==
    /\ pc = "returned"
    /\ call_args.op = "generate_design"
    /\ LET strands == BuildStrands(domains, call_args.strands_data)
       IN  \E validation_raises \in BOOLEAN :
            /\ validation_raises => \E i \in DOMAIN strands : Len(strands[i].sequence) >= 2
            /\ response' =
                IF design_success = "false"
                THEN DesignResponse(design_success, domains)
                ELSE IF validation_raises
                THEN [error |-> "Design generation failed"]
                ELSE [success |-> TRUE, domains |-> domains, strands |-> strands]
    /\ pc' = "responded"
    /\ UNCHANGED <<pool, dg, used_sequences, request, domains, idx, attempt,
                   assigned_sequences, sequences, design_success, error_log, calls,
                   sample_args>>
    /\ UNCHANGED <<call_vars, builder_vars>>

InitRoute ==
    /\ pool \in DesignPools
    /\ dg = <<>>
    /\ used_sequences = InitialUsedSequences
    /\ request \in RouteRequests
    /\ domains = <<>>
    /\ pc = "idle"
    /\ idx = 0
    /\ attempt = 0
    /\ assigned_sequences = <<>>
    /\ sequences = <<>>
    /\ design_success = "none"
    /\ error_log = <<>>
    /\ response = NoResponse
    /\ calls = 0
    /\ sample_args = NoArgs
    /\ call_args \in {[op |-> "generate_design", strands_data |-> sd] :
                        sd \in RouteStrandsData}
    /\ call_result = NoCall
    /\ thermo = <<>>
    /\ workers = <<>>
    /\ builder_pc = "idle"
    /\ runs = 0

NextRoute ==
    \/ GenerateDesignStart
    \/ CrossValidationBreak
    \/ CrossValidationReject
    \/ CrossValidationCommit
    \/ CrossValidationReturn
    \/ GenerateDesignRespond

\* one request to generate_design
SpecRoute == InitRoute /\ [][NextRoute]_vars

NextSession ==
    \/ FirstCall
    \/ LaterCall
    \/ ClearUsedSequences
    \/ ComplementsAssign
    \/ ComplementsFail
    \/ ComplementsReturn
    \/ CrossValidationBreak
    \/ CrossValidationReject
    \/ CrossValidationCommit
    \/ CrossValidationReturn
    \/ Respond

\* the numbers of domains of the requests of a session of several calls
SessionSizes == {0, 1, 2}

\* the requests of the sessions of several calls
SessionRequests == UNION {DomainLists(n) : n \in SessionSizes}

InitSession ==
    /\ pool \in DesignPools
    /\ dg = <<>>
    /\ used_sequences = InitialUsedSequences
    /\ request \in SessionRequests
    /\ domains = <<>>
    /\ pc = "idle"
    /\ idx = 0
    /\ attempt = 0
    /\ assigned_sequences = <<>>
    /\ sequences = <<>>
    /\ design_success = "none"
    /\ error_log = <<>>
    /\ response = NoResponse
    /\ calls = 0
    /\ sample_args = NoArgs
    /\ NothingElseRan

\* several design calls on one generator
SpecSession == InitSession /\ [][NextSession]_vars

(***************************************************************************)
(* Direct calls of get_sequences_from_redis(length, count, exclude).       *)
(***************************************************************************)
\* the lengths asked for: those of the pool and one no key exists for
SampleLengths == Lengths \cup {9}

InitSample ==
    /\ pool \in Pools
    /\ dg = <<>>
    /\ used_sequences = InitialUsedSequences
    /\ request = <<>>
    /\ domains = <<>>
    /\ pc = "idle"
    /\ idx = 0
    /\ attempt = 0
    /\ assigned_sequences = <<>>
    /\ sequences = <<>>
    /\ design_success = "none"
    /\ error_log = <<>>
    /\ response = NoResponse
    /\ calls = 0
    /\ sample_args = NoArgs
    /\ NothingElseRan

Sample ==
    /\ \E length \in SampleLengths, count \in 0..MaxCount,
          exclude \in SUBSET AllSequences :
        /\ sample_args' = [length |-> length, count |-> count, exclude |-> exclude]
        /\ sequences' \in get_sequences_from_redis(pool, length, count, exclude)
    /\ UNCHANGED <<pool, dg, used_sequences, request, domains, pc, idx, attempt,
                   assigned_sequences, design_success, error_log, response, calls>>
    /\ UNCHANGED <<call_vars, builder_vars>>

NextSample == Sample

SpecSample == InitSample /\ [][NextSample]_vars

(***************************************************************************)
(* Properties.                                                             *)
(***************************************************************************)
\* the Oracle's answer for a pair under a table that fixes it
DgOf(table, seq1, seq2) ==
    IF Len(seq1) < MinDimerLength \/ Len(seq2) < MinDimerLength THEN 0
    ELSE table[OracleKey(seq1, seq2)]

\* the Oracle inputs behind the full-length and the 3' measurement of a pair
PairKeys(seq1, seq2) ==
    {OracleKey(seq1, seq2),
     OracleKey(ThreePrime(seq1, threePrimeLength), ThreePrime(seq2, threePrimeLength))}

\* both measurements of the pair are at or above their floors under table
AtOrAboveFloors(table, seq1, seq2) ==
    /\ DgOf(table, seq1, seq2) >= crossDimerDgMin
    /\ DgOf(table, ThreePrime(seq1, threePrimeLength), ThreePrime(seq2, threePrimeLength))
         >= threePrimeCrossDimerDgMin

\* positions of the non-complement domains (no flag, no reference) that hold a sequence
Committed(ds) ==
    {i \in 1..Len(ds) :
        ~ds[i].isComplement /\ ds[i].complementOf = NoDomain /\ ds[i].sequence # <<>>}

\* sequences marked used in this call without being committed
Rejected == used_sequences \ Range(assigned_sequences)

\* C1 as claimed: in either mode, every two sequences committed to non-complement
\* domains are at or above both cross-dimer floors, whatever the Oracle answers
\* for a pair the code did not measure.
C1_AnyModeCommittedPairsSafe ==
    \A i, j \in Committed(domains) :
        i < j =>
            \A table \in Fixing(dg, PairKeys(domains[j].sequence, domains[i].sequence)) :
                AtOrAboveFloors(table, domains[j].sequence, domains[i].sequence)

\* C1 amended: in fully-orthogonal mode every committed sequence was measured
\* against each sequence committed before it in the call, and both the
\* full-length and the 3' cross-dimer dG are at or above the default floors.
C1_CrossValidatedPairsSafe ==
    ~has_complement_domains(domains) =>
        \A i, j \in Committed(domains) :
            i < j =>
                /\ PairKeys(domains[j].sequence, domains[i].sequence) \subseteq DOMAIN dg
                /\ AtOrAboveFloors(dg, domains[j].sequence, domains[i].sequence)

\* C1 witness: a fully-orthogonal call succeeded with two committed sequences
C1_Witness ==
    /\ design_success = "true"
    /\ ~has_complement_domains(domains)
    /\ Cardinality(Committed(domains)) >= 2

\* C2 as claimed: after a successful assignment every domain whose complementOf
\* is set holds the reverse complement of the sequence of the domain it references.
C2_ComplementIsReverseComplement ==
    design_success = "true" =>
        \A i, j \in 1..Len(domains) :
            domains[i].complementOf = domains[j].id =>
                domains[i].sequence = reverse_complement(domains[j].sequence)

\* C3: the list get_sequences_from_redis returns holds no sequence of the
\* caller's exclusion set.
C3_SampleExcludes ==
    \A k \in 1..Len(sequences) : sequences[k] \notin sample_args.exclude

\* C3 witness: a sample was returned although the exclusion set holds pool sequences
C3_Witness ==
    /\ sequences # <<>>
    /\ sample_args.exclude \cap SMembers(pool, sample_args.length) # {}

\* C4: the sample holds exactly min(count, number of pool sequences of the length
\* outside the exclusion set) sequences, pairwise distinct, all from the pool's
\* set of that length.
C4_SampleSize ==
    /\ Len(sequences) =
         Min(sample_args.count,
             Cardinality(SMembers(pool, sample_args.length) \ sample_args.exclude))
    /\ \A k, l \in 1..Len(sequences) : k # l => sequences[k] # sequences[l]
    /\ \A k \in 1..Len(sequences) : sequences[k] \in SMembers(pool, sample_args.length)

\* C4 witness: fewer sequences than requested were returned, and not none
C4_Witness ==
    /\ sequences # <<>>
    /\ Len(sequences) < sample_args.count

\* C5 as claimed: after a failed call the domains handed to it carry no sequence.
C5_FailedCallLeavesNoSequence ==
    design_success = "false" =>
        \A i \in 1..Len(domains) : domains[i].sequence = <<>>

\* C5 amended: after a failed call the answer of generate_design carries the
\* error and its details and no domains (the domain objects keep what was
\* committed before the failure).
C5_FailedCallAnswersErrorOnly ==
    (pc = "responded" /\ design_success = "false") =>
        /\ DOMAIN response = {"error", "details"}
        /\ "domains" \notin DOMAIN response

\* C5 witness: a failed call was answered while a domain holds a committed sequence
C5_Witness ==
    /\ pc = "responded"
    /\ design_success = "false"
    /\ \E i \in 1..Len(domains) : domains[i].sequence # <<>>

\* C6 as claimed: when all max_attempts draws for a domain were rejected, the
\* call fails, no later domain holds a sequence, and the failure record names the
\* domain, its length and the number of attempts made.
C6_ExhaustionReportsDomainLengthAttempts ==
    (pc = "cross_validation" \/ ~has_complement_domains(domains)) =>
        (attempt = max_attempts =>
            /\ design_success = "false"
            /\ \A i \in idx..Len(domains) : domains[i].sequence = <<>>
            /\ error_log # <<>>
            /\ LET record == error_log[Len(error_log)]
               IN  /\ record.domain = domains[idx].id
                   /\ "attempts" \in DOMAIN record
                   /\ record.attempts = attempt
                   /\ "length" \in DOMAIN record
                   /\ record.length = domains[idx].length)

\* C7: in fully-orthogonal mode a draw never returns a sequence of the used set,
\* a rejected candidate enters the used set without being committed, and the used
\* set only grows during the call: a rejected candidate is never drawn again.
C7_RejectedNeverRedrawn ==
    [][pc = "cross_validation" =>
          /\ used_sequences \subseteq used_sequences'
          /\ sequences' # <<>> =>
                /\ sequences'[1] \notin used_sequences
                /\ sequences'[1] \notin Rejected
          /\ (attempt' = attempt + 1) =>
                /\ sequences'[1] \in used_sequences'
                /\ sequences'[1] \in Rejected'
                /\ domains' = domains]_vars

\* C7 witness: a candidate was rejected and a later draw committed another sequence
C7_Witness ==
    /\ pc = "cross_validation"
    /\ Rejected # {}
    /\ Len(assigned_sequences) >= 2
    /\ sequences = <<assigned_sequences[Len(assigned_sequences)]>>

\* a design call has started and has not drawn anything yet
CallAtStart ==
    /\ pc \in {"complements", "cross_validation"}
    /\ idx = 1
    /\ attempt = 0

\* C8 as claimed: the used set is scoped to one call, so a call that has not yet
\* drawn anything excludes nothing.
C8_UsedSetScopedToCall == CallAtStart => used_sequences = {}

\* C8 amended: the used set belongs to the generator: the first call on a new
\* generator starts with nothing excluded, and a later call on the same generator
\* starts with exactly the set the earlier calls left.
C8_UsedSetScopedToGenerator ==
    /\ []((calls = 1 /\ CallAtStart) => used_sequences = {})
    /\ [][(pc = "responded" /\ pc' # "responded") =>
              used_sequences' = used_sequences]_vars

\* C8 witness: a later call on the same generator has started with sequences
\* still marked used by an earlier call
C8_Witness ==
    /\ calls >= 2
    /\ CallAtStart
    /\ used_sequences # {}

\* C9 as claimed: after a successful assignment every input domain holds a
\* non-empty sequence.
C9_EveryDomainAssigned ==
    design_success = "true" =>
        \A i \in 1..Len(domains) : domains[i].sequence # <<>>

\* C10 as claimed: after a successful assignment every assigned domain's
\* sequence has the domain's declared length.
C10_AssignedLengthMatches ==
    design_success = "true" =>
        \A i \in 1..Len(domains) :
            domains[i].sequence # <<>> => Len(domains[i].sequence) = domains[i].length

(***************************************************************************)
(* C11: after a successful assignment, the sequences drawn from the Pool   *)
(* and committed to different domains are pairwise distinct.  The domains  *)
(* that keep the sequence drawn for them are the forward domains no        *)
(* reverse complement is written to.                                       *)
(***************************************************************************)
C11_DrawnSequencesDistinct ==
    design_success = "true" =>
        \A i, j \in Committed(domains) :
            i # j => domains[i].sequence # domains[j].sequence

\* three domains of one length, no complement relationship, all assigned
C11_Witness ==
    /\ design_success = "true"
    /\ ~has_complement_domains(domains)
    /\ Len(domains) = 3
    /\ \A i \in DOMAIN domains : domains[i].length = 7 /\ domains[i].sequence # <<>>

(***************************************************************************)
(* C12: if all sequences in the Pool are mutually cross-dimer-safe and,    *)
(* for every length, the Pool holds at least as many sequences as there    *)
(* are input domains of that length (none with a complement relationship), *)
(* fully-orthogonal assignment on a new generator succeeds for every       *)
(* outcome of the sampling.  The Oracle is safe when every measurement it  *)
(* gives for two different Pool sequences is at or above its floor.        *)
(***************************************************************************)
\* for every length, at least as many Pool sequences as domains of that length
PoolCoversDomains(store, ds) ==
    \A l \in {ds[i].length : i \in DOMAIN ds} :
        Cardinality(SMembers(store, l)) >= Cardinality({i \in DOMAIN ds : ds[i].length = l})

\* every measurement the Oracle has given for the pair is at or above its floor
MeasuredSafe(table, seq1, seq2) ==
    LET full  == OracleKey(seq1, seq2)
        three == OracleKey(ThreePrime(seq1, threePrimeLength),
                           ThreePrime(seq2, threePrimeLength))
    IN  /\ full \in DOMAIN table => table[full] >= crossDimerDgMin
        /\ three \in DOMAIN table => table[three] >= threePrimeCrossDimerDgMin

PoolMutuallySafe ==
    \A l1, l2 \in DOMAIN pool : \A seq1 \in pool[l1], seq2 \in pool[l2] :
        seq1 # seq2 => MeasuredSafe(dg, seq1, seq2)

gc_min == 30
gc_max == 70
tm_min == 42
tm_max == 60
hairpin_max == 32
self_dimer_max == 32
three_prime_hairpin_max == 27
three_prime_self_dimer_max == 27
three_prime_length == 6

\* bases = ['A', 'T', 'G', 'C']
bases == {"A", "T", "G", "C"}

\* s[::-1]
Reverse(s) == [i \in 1..Len(s) |-> s[Len(s) + 1 - i]]

\* p * k
Times(p, k) == [i \in 1..(Len(p) * k) |-> p[((i - 1) % Len(p)) + 1]]

\* pattern in s
Contains(s, pattern) ==
    \E i \in 1..(Len(s) - Len(pattern) + 1) : SubSeq(s, i, i + Len(pattern) - 1) = pattern

\* s.count(base)
Count(s, base) == Cardinality({i \in DOMAIN s : s[i] = base})

\* s[i:j], with the indices of the source (from 0, j excluded, cut at the end)
Slice(s, i, j) == SubSeq(s, i + 1, Min(j, Len(s)))

\* calculate_gc_content: (gc_count / len(sequence)) * 100, kept as a fraction;
\* only upper-case G and C are counted
calculate_gc_content(sequence) ==
    [num |-> 100 * (Count(sequence, "G") + Count(sequence, "C")), den |-> Len(sequence)]

\* the mutant accepts every GC content
GcUnbounded(gc) == TRUE

\* SETTINGS['gc_min'] <= gc <= SETTINGS['gc_max']
GcWithinBounds(gc) == gc_min * gc.den <= gc.num /\ gc.num <= gc_max * gc.den

\* the dinucleotides has_repetitive_patterns lists
dinucleotides ==
    {<<"A", "T">>,
     <<"T", "A">>,
     <<"G", "C">>,
     <<"C", "G">>,
     <<"A", "G">>,
     <<"G", "A">>,
     <<"C", "T">>,
     <<"T", "C">>}

\* the purine / pyrimidine run counters reach 5: five bases in a row of one class
RunOfClass(seq, class) ==
    \E i \in 1..(Len(seq) - 4) : \A k \in 0..4 : seq[i + k] \in class

has_repetitive_patterns(sequence) ==
    LET seq == UpperSeq(sequence)
    IN  \/ \E base \in bases : Contains(seq, Times(<<base>>, 4))
        \/ \E dinuc \in dinucleotides : Contains(seq, Times(dinuc, 3))
        \/ /\ Len(seq) >= 9
           /\ \E i \in 0..(Len(seq) - 9) :
                Times(Slice(seq, i, i + 3), 3) = Slice(seq, i, i + 9)
        \/ /\ Len(seq) >= 8
           /\ \E i \in 0..(Len(seq) - 8) :
                Slice(seq, i, i + 8) = Reverse(Slice(seq, i, i + 8))
        \/ \E base \in bases : 10 * Count(seq, base) > 6 * Len(seq)
        \/ RunOfClass(seq, {"A", "G"})
        \/ RunOfClass(seq, {"C", "T"})

\* complement_map.get(base, base), on a sequence already in upper case
SymmetryComplement(b) ==
    CASE b = "A" -> "T"
      [] b = "T" -> "A"
      [] b = "G" -> "C"
      [] b = "C" -> "G"
      [] OTHER -> b

SymmetryReverseComplement(s) == [i \in 1..Len(s) |-> SymmetryComplement(s[Len(s) + 1 - i])]

\* TRUE when the sequence has none of the symmetries
check_symmetry_constraints(sequence) ==
    LET seq == UpperSeq(sequence)
        length == Len(seq)
        mid == length \div 2
    IN  /\ seq # SymmetryReverseComplement(seq)
        /\ seq # Reverse(seq)
        /\ length >= 12 =>
            Slice(seq, 0, mid) # SymmetryReverseComplement(Slice(seq, mid, mid * 2))
        /\ length >= 8 =>
            \A i \in 0..(length - 4) : \A j \in (i + 4)..(length - 1) :
                LET subseq1 == Slice(seq, i, i + 4)
                    subseq2 == Slice(seq, j, j + 4)
                IN  Len(subseq2) >= 4 => subseq1 # SymmetryReverseComplement(subseq2)

restriction_sites ==
    {<<"G", "A", "A", "T", "T", "C">>,
     <<"G", "G", "A", "T", "C", "C">>,
     <<"A", "A", "G", "C", "T", "T">>,
     <<"C", "T", "G", "C", "A", "G">>,
     <<"G", "T", "C", "G", "A", "C">>,
     <<"C", "C", "A", "T", "G", "G">>,
     <<"G", "C", "G", "G", "C", "C", "G", "C">>,
     <<"T", "C", "T", "A", "G", "A">>}

problematic_motifs ==
    {<<"G", "G", "G", "G", "G", "G">>,
     <<"C", "C", "C", "C", "C", "C">>,
     <<"A", "A", "A", "A", "A", "A">>,
     <<"T", "T", "T", "T", "T", "T">>}

common_primers ==
    {<<"G", "T", "A", "A", "A", "A", "C", "G", "A", "C", "G", "G", "C", "C", "A", "G", "T">>,
     <<"C", "A", "G", "G", "A", "A", "A", "C", "A", "G", "C", "T", "A", "T", "G", "A", "C">>,
     <<"T", "G", "T", "A", "A", "A", "A", "C", "G", "A", "C", "G", "G", "C", "C", "A", "G", "T">>}

\* sum(1 for a, b in zip(window, p_window) if a == b)
Matches(window, p_window) ==
    Cardinality({k \in 1..Min(Len(window), Len(p_window)) : window[k] = p_window[k]})

has_problematic_motifs(sequence) ==
    LET seq == UpperSeq(sequence)
    IN  \/ \E site \in restriction_sites : Contains(seq, site)
        \/ \E motif \in problematic_motifs : Contains(seq, motif)
        \/ /\ Len(seq) >= 8
           /\ \E i \in 0..(Len(seq) - 8) : \E p \in common_primers :
                /\ Len(p) >= 8
                /\ \E j \in 0..(Len(p) - 8) :
                    Matches(Slice(seq, i, i + 8), Slice(p, j, j + 8)) >= 7

\* what the Oracle answers for a sequence and for its 3' window: the melting
\* temperature, the hairpin and homodimer Tm of both, or an exception
OracleRaises == [raises |-> TRUE]

Answers(tm, hairpin, homodimer, three_prime_hairpin, three_prime_homodimer) ==
    [raises |-> FALSE, tm |-> tm, hairpin |-> hairpin, homodimer |-> homodimer,
     three_prime_hairpin |-> three_prime_hairpin,
     three_prime_homodimer |-> three_prime_homodimer]

\* the answers at the limits the Filter still accepts
AtLimits == Answers(tm_max, hairpin_max, self_dimer_max, three_prime_hairpin_max,
                    three_prime_self_dimer_max)

\* the answers of the model: at the limits, one step past each limit, an exception
ThermoProfiles ==
    {AtLimits,
     [AtLimits EXCEPT !.tm = tm_min],
     [AtLimits EXCEPT !.tm = tm_min - 1],
     [AtLimits EXCEPT !.tm = tm_max + 1],
     [AtLimits EXCEPT !.hairpin = hairpin_max + 1],
     [AtLimits EXCEPT !.homodimer = self_dimer_max + 1],
     [AtLimits EXCEPT !.three_prime_hairpin = three_prime_hairpin_max + 1],
     [AtLimits EXCEPT !.three_prime_homodimer = three_prime_self_dimer_max + 1],
     OracleRaises}

\* the mutant accepts the candidate the Oracle raised for
ExceptionAccepts == TRUE

\* except Exception: return False
ExceptionReturns == FALSE

\* validate_sequence, given the Oracle's answers for the sequence
validate_sequence(answers, sequence) ==
    IF Len(sequence) = 0 THEN FALSE           \* ZeroDivisionError, caught
    ELSE IF ~GcWithinBounds(calculate_gc_content(sequence)) THEN FALSE
    ELSE IF answers.raises THEN ExceptionReturns
    ELSE /\ tm_min <= answers.tm /\ answers.tm <= tm_max
         /\ answers.hairpin <= hairpin_max
         /\ answers.homodimer <= self_dimer_max
         /\ Len(sequence) >= three_prime_length =>
                /\ answers.three_prime_hairpin <= three_prime_hairpin_max
                /\ answers.three_prime_homodimer <= three_prime_self_dimer_max
         /\ ~has_repetitive_patterns(sequence)
         /\ check_symmetry_constraints(sequence)
         /\ ~has_problematic_motifs(sequence)

(***************************************************************************)
(* Calls of the reverse-complement implementations.                        *)
(***************************************************************************)
\* the characters of the sequences: upper-case and lower-case bases, N, and a
\* character the dictionaries do not hold
ReverseAlphabet == {"A", "C", "G", "T", "N", "a", "g", "x"}

ReverseInputs == UNION {[1..n -> ReverseAlphabet] : n \in 0..MaxSeqLen}

Implementations == {"models", "generator", "thermodynamics"}

ReverseComplementOf(impl, s) ==
    CASE impl = "models" -> models_reverse_complement(s)
      [] impl = "generator" -> reverse_complement(s)
      [] impl = "thermodynamics" -> thermodynamics_reverse_complement(s)

\* every variable of the design calls at rest
DesignIdle ==
    /\ pool = Universe
    /\ dg = <<>>
    /\ used_sequences = InitialUsedSequences
    /\ request = <<>>
    /\ domains = <<>>
    /\ pc = "idle"
    /\ idx = 0
    /\ attempt = 0
    /\ assigned_sequences = <<>>
    /\ sequences = <<>>
    /\ design_success = "none"
    /\ error_log = <<>>
    /\ response = NoResponse
    /\ calls = 0
    /\ sample_args = NoArgs

design_vars == <<pool, dg, used_sequences, request, domains, pc, idx, attempt,
                 assigned_sequences, sequences, design_success, error_log, response,
                 calls, sample_args>>

InitReverse == DesignIdle /\ NothingElseRan

\* one implementation applied to a sequence, and again to what it returned
ReverseTwice ==
    /\ call_args = NoCall
    /\ \E impl \in Implementations, s \in ReverseInputs :
        /\ call_args' = [op |-> "reverse_complement", impl |-> impl, sequence |-> s]
        /\ call_result' = [op |-> "reverse_complement",
                           once |-> ReverseComplementOf(impl, s),
                           twice |-> ReverseComplementOf(impl, ReverseComplementOf(impl, s))]
    /\ UNCHANGED <<design_vars, builder_vars>>

NextReverse == ReverseTwice

SpecReverse == InitReverse /\ [][NextReverse]_vars

(***************************************************************************)
(* C18: reverseComplement(reverseComplement(s)) == s for all sequences s,  *)
(* for each reverse-complement implementation of the repository.           *)
(***************************************************************************)
C18_RoundTripIsIdentity ==
    call_result.op = "reverse_complement" => call_result.twice = call_args.sequence

\* C18 as the code has it: the round trip returns s with its bases in upper
\* case (a, c, g, t, n become A, C, G, T, N; every other character is kept), so
\* it returns s itself when s holds no lower-case base
C18_RoundTripUpperCases ==
    call_result.op = "reverse_complement" =>
        /\ call_result.twice = UpperSeq(call_args.sequence)
        /\ Len(call_result.once) = Len(call_args.sequence)
        /\ (\A i \in DOMAIN call_args.sequence :
                call_args.sequence[i] \notin {"a", "c", "g", "t", "n"})
            => call_result.twice = call_args.sequence

\* a sequence with a lower-case base and an unknown character went round
C18_Witness ==
    /\ call_result.op = "reverse_complement"
    /\ call_args.sequence = <<"a", "x", "G">>
    /\ call_result.twice = <<"A", "x", "G">>

(***************************************************************************)
(* Calls of validate_sequence.                                             *)
(***************************************************************************)
\* longer sequences, one for each rule that looks at 7 bases or more
LongCandidates ==
    {<<"A", "C", "G", "A", "C", "G", "A", "C", "G">>,  \* a trinucleotide tripled
     <<"A", "C", "G", "T", "T", "G", "C", "A">>,  \* an 8-mer that reads as its own reverse
     <<"A", "A", "A", "A", "C", "G", "C">>,  \* a homopolymer run of 4
     <<"G", "T", "A", "A", "A", "A", "C", "C", "A", "C", "G", "G">>,  \* 7 of 8 bases of an M13 primer window
     <<"A", "C", "C", "T", "G", "A", "G", "G", "T", "C", "A", "T">>,  \* a 4-bp window whose reverse complement recurs
     <<"A", "C", "G", "G", "T", "C", "G", "A", "C", "C", "G", "T">>,  \* its own reverse complement, with a SalI site
     <<"A", "C", "A", "C", "A", "C", "G", "G", "T", "T", "C", "A", "G", "C", "T", "T", "G", "A", "C", "C">>,  \* a 20-mer that starts with ACACAC
     <<"C", "A", "G", "T", "T", "A", "C", "G">>}  \* an 8-mer with none of the patterns

\* every sequence of the builder's bases up to FilterMaxLen, and the longer ones
FilterInputs == UNION {[1..n -> bases] : n \in 0..FilterMaxLen} \cup LongCandidates

InitFilter == DesignIdle /\ NothingElseRan

Validate ==
    /\ call_args = NoCall
    /\ \E sequence \in FilterInputs, answers \in ThermoProfiles :
        /\ call_args' = [op |-> "validate_sequence", sequence |-> sequence,
                         answers |-> answers]
        /\ call_result' = [op |-> "validate_sequence",
                           accepted |-> validate_sequence(answers, sequence)]
    /\ UNCHANGED <<design_vars, builder_vars>>

NextFilter == Validate

SpecFilter == InitFilter /\ [][NextFilter]_vars

\* the Filter accepted the sequence of the call
Accepted == call_result.op = "validate_sequence" /\ call_result.accepted

\* the share of G and C among the bases is within [gc_min, gc_max] percent
GcPercentWithinBounds(s) ==
    LET gc == Cardinality({i \in DOMAIN s : s[i] \in {"G", "C"}})
    IN  gc_min * Len(s) <= 100 * gc /\ 100 * gc <= gc_max * Len(s)

\* n or more identical bases in a row
HasHomopolymerRun(s, n) ==
    \E i \in 1..(Len(s) - n + 1) : \A k \in 1..(n - 1) : s[i + k] = s[i]

\* some dinucleotide over {A, C, G, T} three times in a row
HasDinucleotideRepeat(s) ==
    \E x \in {"A", "C", "G", "T"}, y \in {"A", "C", "G", "T"} :
        \E i \in 1..(Len(s) - 5) : \A k \in 0..2 : s[i + 2 * k] = x /\ s[i + 2 * k + 1] = y

(***************************************************************************)
(* C16: for every sequence the Filter Rule Engine accepts, the GC          *)
(* percentage lies within [gc_min, gc_max], there is no homopolymer run of *)
(* 4 or more identical bases, and the sequence is not its own reverse      *)
(* complement.                                                             *)
(***************************************************************************)
C16_AcceptedWithinBounds ==
    Accepted =>
        /\ GcPercentWithinBounds(call_args.sequence)
        /\ ~HasHomopolymerRun(call_args.sequence, 4)
        /\ call_args.sequence # reverse_complement(call_args.sequence)

\* a 6-mer was accepted on answers at the limits
C16_Witness ==
    /\ Accepted
    /\ Len(call_args.sequence) = 6
    /\ call_args.answers = AtLimits

(***************************************************************************)
(* C17: no sequence the Filter Rule Engine accepts contains a              *)
(* dinucleotide repeated 3 or more times contiguously, for every           *)
(* dinucleotide over {A, C, G, T}.                                         *)
(***************************************************************************)
C17_AcceptedHasNoDinucleotideRepeat ==
    Accepted => ~HasDinucleotideRepeat(call_args.sequence)

(***************************************************************************)
(* The Pool Builder (generate_oligo_sequences.py): the worker              *)
(* generate_sequences_for_length, and main, which prepares one work item   *)
(* for each length, runs the workers and saves what they return.           *)
(***************************************************************************)
\* the sequences random.choice may put together, per length: a few of the 4^length
BuilderCandidates ==
    [l \in Lengths |->
        IF l = 7
        THEN {S1, S2,
              <<"A", "C", "A", "C", "A", "C", "G">>,
              <<"A", "T", "T", "A", "T", "T", "A">>}
        ELSE {T1, <<"A", "C", "G", "T", "T", "G", "C", "A">>}]

\* what the Oracle may answer for a candidate: within the limits, too cold, or
\* an exception
BuilderProfiles == {AtLimits, [AtLimits EXCEPT !.tm = tm_min - 1], OracleRaises}

\* validate_sequence calls the Oracle once the GC content is within bounds; the
\* answers for a sequence are fixed the first time it asks
OracleAnswers(table, sequence) ==
    IF Len(sequence) = 0 \/ ~GcWithinBounds(calculate_gc_content(sequence))
    THEN {[table |-> table, answers |-> AtLimits]}
    ELSE IF sequence \in DOMAIN table
    THEN {[table |-> table, answers |-> table[sequence]]}
    ELSE {[table |-> table @@ (sequence :> a), answers |-> a] : a \in BuilderProfiles}

\* the mutant allows one attempt more
AttemptCapPlusOne(target_count) == target_count * AttemptMultiplier + 1

\* max_attempts = target_count * 1000
AttemptCap(target_count) == target_count * AttemptMultiplier

\* length, target_count, existing_sequences = args, and the locals at the start
NewWorker(target_count, existing) ==
    [target_count |-> target_count, existing_set |-> existing,
     valid_sequences |-> <<>>, attempts |-> 0, generated |-> 0, returned |-> FALSE]

\* while len(valid_sequences) < target_count and attempts < max_attempts
KeepsGoing(w) ==
    Len(w.valid_sequences) < w.target_count /\ w.attempts < AttemptCap(w.target_count)

\* the mutant collects the candidate whatever the Filter says
WorkerAcceptsAll(answers, sequence) == TRUE

\* if validate_sequence(sequence)
WorkerAccepts(answers, sequence) == validate_sequence(answers, sequence)

\* the mutant puts a sequence of any of the lengths together
RandomSequencesOfAnyLength(length) == UNION {BuilderCandidates[l] : l \in Lengths}

\* ''.join(random.choice(bases) for _ in range(length))
RandomSequences(length) == BuilderCandidates[length]

\* the mutant skips only what the pool held
SkipsExistingOnly(w, sequence) == sequence \in w.existing_set

\* if sequence in existing_set or sequence in valid_sequences: continue
Skips(w, sequence) ==
    sequence \in w.existing_set \/ sequence \in Range(w.valid_sequences)

\* one iteration of the loop of the worker of a length
WorkerStep(length) ==
    /\ builder_pc = "generating"
    /\ length \in DOMAIN workers
    /\ ~workers[length].returned
    /\ KeepsGoing(workers[length])
    /\ LET w == workers[length]
           counted == [w EXCEPT !.attempts = @ + 1, !.generated = @ + 1]
       IN  \E sequence \in RandomSequences(length) :
            IF Skips(w, sequence)
            THEN /\ workers' = [workers EXCEPT ![length] = counted]
                 /\ thermo' = thermo
            ELSE \E oracle \in OracleAnswers(thermo, sequence) :
                    /\ thermo' = oracle.table
                    /\ workers' = [workers EXCEPT ![length] =
                            IF WorkerAccepts(oracle.answers, sequence)
                            THEN [counted EXCEPT !.valid_sequences = Append(@, sequence)]
                            ELSE counted]
    /\ UNCHANGED <<design_vars, call_vars, builder_pc, runs>>

\* return length, valid_sequences, attempts
WorkerReturn(length) ==
    /\ builder_pc = "generating"
    /\ length \in DOMAIN workers
    /\ ~workers[length].returned
    /\ ~KeepsGoing(workers[length])
    /\ workers' = [workers EXCEPT ![length].returned = TRUE]
    /\ UNCHANGED <<design_vars, call_vars, thermo, builder_pc, runs>>

\* needed = max_sequences_per_length - len(existing)
Needed(store, length) == max_sequences_per_length - Cardinality(SMembers(store, length))

\* main, up to pool.map: the work items of the lengths that need sequences
Prepare ==
    /\ builder_pc = "idle"
    /\ runs < MaxRuns
    /\ LET needy == {l \in Lengths : Needed(pool, l) > 0}
       IN  IF needy = {}
           THEN /\ workers' = <<>>          \* "All lengths already have sufficient sequences"
                /\ runs' = runs + 1
                /\ builder_pc' = "idle"
           ELSE /\ workers' = [l \in needy |-> NewWorker(Needed(pool, l), SMembers(pool, l))]
                /\ runs' = runs
                /\ builder_pc' = "generating"
    /\ UNCHANGED <<design_vars, call_vars, thermo>>

\* the database holds sequences and the operator answers the prompt with no
Cancel ==
    /\ builder_pc = "idle"
    /\ runs < MaxRuns
    /\ \E l \in Lengths : SMembers(pool, l) # {}
    /\ workers' = <<>>
    /\ runs' = runs + 1
    /\ UNCHANGED <<design_vars, call_vars, thermo, builder_pc>>

\* the mutant saves only the batches that reached the quota
SavesFullBatch(w) == Len(w.valid_sequences) = w.target_count

\* if sequences: save_sequences(redis_client, length, sequences)
SavesBatch(w) == w.valid_sequences # <<>>

\* redis_client.sadd(key, *sequences)
save_sequences(store, length, batch) ==
    IF batch = <<>> THEN store
    ELSE [store EXCEPT ![length] = @ \cup Range(batch)]

\* main, after pool.map returned: every result is saved
SaveResults ==
    /\ builder_pc = "generating"
    /\ \A l \in DOMAIN workers : workers[l].returned
    /\ pool' = [l \in DOMAIN pool |->
                    IF l \in DOMAIN workers /\ SavesBatch(workers[l])
                    THEN save_sequences(pool, l, workers[l].valid_sequences)[l]
                    ELSE pool[l]]
    /\ builder_pc' = "idle"
    /\ runs' = runs + 1
    /\ UNCHANGED <<dg, used_sequences, request, domains, pc, idx, attempt,
                   assigned_sequences, sequences, design_success, error_log, response,
                   calls, sample_args, call_vars, thermo, workers>>

\* the runs start on an empty pool
InitBuilder ==
    /\ pool = [l \in Lengths |-> {}]
    /\ dg = <<>>
    /\ used_sequences = InitialUsedSequences
    /\ request = <<>>
    /\ domains = <<>>
    /\ pc = "idle"
    /\ idx = 0
    /\ attempt = 0
    /\ assigned_sequences = <<>>
    /\ sequences = <<>>
    /\ design_success = "none"
    /\ error_log = <<>>
    /\ response = NoResponse
    /\ calls = 0
    /\ sample_args = NoArgs
    /\ NothingElseRan

NextBuilder ==
    \/ Prepare
    \/ Cancel
    \/ \E length \in Lengths : WorkerStep(length)
    \/ \E length \in Lengths : WorkerReturn(length)
    \/ SaveResults

SpecBuilder == InitBuilder /\ [][NextBuilder]_vars

(***************************************************************************)
(* One worker alone: generate_sequences_for_length((length, target_count,  *)
(* existing_sequences)) run to its end.                                    *)
(***************************************************************************)
InitWorker ==
    /\ DesignIdle
    /\ call_args = NoCall
    /\ call_result = NoCall
    /\ thermo = <<>>
    /\ \E length \in Lengths, target_count \in 0..max_sequences_per_length :
        \E existing \in SUBSET BuilderCandidates[length] :
            workers = (length :> NewWorker(target_count, existing))
    /\ builder_pc = "generating"
    /\ runs = 0

NextWorker ==
    \/ \E length \in Lengths : WorkerStep(length)
    \/ \E length \in Lengths : WorkerReturn(length)

\* the worker is a sequential loop: it keeps stepping until it returns
SpecWorker == InitWorker /\ [][NextWorker]_vars /\ WF_vars(NextWorker)

(***************************************************************************)
(* C13: the Pool never contains a sequence that fails the Filter Rule      *)
(* Engine: after any sequence of Pool Builder runs starting from an empty  *)
(* pool, every member of every length's set is accepted by                 *)
(* validate_sequence (on the answers the Oracle gives for it).             *)
(***************************************************************************)
C13_PoolHoldsOnlyAccepted ==
    \A l \in DOMAIN pool : \A s \in pool[l] :
        /\ Len(s) = l
        /\ s \in DOMAIN thermo
        /\ validate_sequence(thermo[s], s)

\* two runs have saved sequences of both lengths
C13_Witness ==
    /\ runs = 2
    /\ builder_pc = "idle"
    /\ \A l \in DOMAIN pool : pool[l] # {}
    /\ Cardinality(pool[7]) = 2

(***************************************************************************)
(* C14: for each length the generate-and-filter loop terminates: it stops  *)
(* as soon as quotaPerLength accepted sequences are collected or           *)
(* quotaPerLength * 1000 attempts have been made, so it returns at most    *)
(* quotaPerLength sequences and an attempt count that is at most           *)
(* quotaPerLength * 1000 and equals the number of candidates generated.    *)
(***************************************************************************)
WorkerWithinCaps(w) ==
    /\ Len(w.valid_sequences) <= w.target_count
    /\ w.attempts <= w.target_count * AttemptMultiplier
    /\ w.attempts = w.generated
    /\ w.returned =>
        \/ Len(w.valid_sequences) = w.target_count
        \/ w.attempts = w.target_count * AttemptMultiplier

C14_WorkerTerminatesWithinCaps ==
    /\ [](\A l \in DOMAIN workers : WorkerWithinCaps(workers[l]))
    /\ <>(\A l \in DOMAIN workers : workers[l].returned)

\* a worker returned at the cap, another with its quota before the cap
C14_Witness ==
    \E l \in DOMAIN workers :
        /\ workers[l].returned
        /\ workers[l].target_count = 2
        /\ workers[l].attempts = 2 * AttemptMultiplier
        /\ Len(workers[l].valid_sequences) = 1

(***************************************************************************)
(* C15: reaching the attempt cap before the quota is a degraded success,   *)
(* not an error: the worker returns normally with fewer than quota         *)
(* sequences and its attempt count, and the partial batch is merged into   *)
(* the Pool like a full one.                                               *)
(***************************************************************************)
\* main has saved the results of the workers of this run
ResultsSaved == builder_pc = "idle" /\ workers # <<>>

C15_PartialBatchMerged ==
    ResultsSaved =>
        \A l \in DOMAIN workers :
            /\ workers[l].returned
            /\ pool[l] = workers[l].existing_set \cup Range(workers[l].valid_sequences)

\* a worker hit the cap with one sequence of two, and the one is in the pool
C15_Witness ==
    /\ ResultsSaved
    /\ \E l \in DOMAIN workers :
        /\ workers[l].attempts = workers[l].target_count * AttemptMultiplier
        /\ Len(workers[l].valid_sequences) = 1
        /\ workers[l].target_count = 2
        /\ workers[l].valid_sequences[1] \in pool[l]

(***************************************************************************)
(* The Validation Engine (validator.py): validate_strand and               *)
(* validate_cross_interactions.  Of the dictionary validate_strand         *)
(* returns, the model keeps the entries the strand and the domains decide: *)
(* 'sequence', 'length' and 'composition'.                                 *)
(***************************************************************************)
\* domains = None: every test the code makes of the argument (if domains, if not
\* domains) takes None as it takes the empty list, so None is the empty list
\* with the mark no_list in the arguments of the call
None == <<>>

\* the sequences of the domains handed to the validator, and of the strands
Pieces == {<<>>, <<"A">>, <<"C", "G">>}

StrandSequences == {p \o q : p \in Pieces, q \in Pieces}

\* ids of the domains; a strand may also name an id no domain has
ValidatorDomainIds == {1, 2}

UnknownDomainId == 3

ValidatorDomains ==
    [id : ValidatorDomainIds, length : {1, 2}, sequence : Pieces]

ValidatorDomainLists ==
    UNION {[1..n -> ValidatorDomains] : n \in 0..MaxValidatorDomains}

ValidatorStrands ==
    [id : {1},
     domainIds : UNION {[1..n -> ValidatorDomainIds \cup {UnknownDomainId}] :
                            n \in 0..MaxValidatorDomains},
     sequence : StrandSequences]

\* if domains: -- a list that holds a domain
Provided(ds) == ds # <<>>

\* the mutant keeps the first domain of an id
domain_dict_first(ds, id) ==
    IF \E k \in DOMAIN ds : ds[k].id = id
    THEN CHOOSE k \in DOMAIN ds : ds[k].id = id /\ \A m \in 1..(k - 1) : ds[m].id # id
    ELSE 0

\* domain_dict = {d.id: d for d in domains}: the position of the domain the
\* dictionary holds for an id (the last one of that id), 0 for an id it lacks
domain_dict(ds, id) ==
    IF \E k \in DOMAIN ds : ds[k].id = id
    THEN CHOOSE k \in DOMAIN ds : ds[k].id = id /\ \A m \in (k + 1)..Len(ds) : ds[m].id # id
    ELSE 0

\* "".join(expected_sequences)
RECURSIVE expected_full_sequence(_, _, _)
expected_full_sequence(domainIds, ds, k) ==
    IF k > Len(domainIds) THEN <<>>
    ELSE LET at == domain_dict(ds, domainIds[k])
         IN  (IF at # 0 THEN ds[at].sequence ELSE <<>>)
                \o expected_full_sequence(domainIds, ds, k + 1)

\* SequenceValidator._validate_domain_composition
validate_domain_composition(strand, ds) ==
    [passed |-> strand.sequence = expected_full_sequence(strand.domainIds, ds, 1),
     check_type |-> "composition"]

\* sum(d.length for d in domains if d.id in strand.domainIds)
RECURSIVE expected_length(_, _, _)
expected_length(strand, ds, k) ==
    IF k > Len(ds) THEN 0
    ELSE (IF ds[k].id \in Range(strand.domainIds) THEN ds[k].length ELSE 0)
            + expected_length(strand, ds, k + 1)

\* SequenceValidator._validate_strand_length
validate_strand_length(strand, ds) ==
    IF ~Provided(ds)
    THEN [passed |-> TRUE, check_type |-> "strand_length"]
    ELSE [passed |-> Len(strand.sequence) = expected_length(strand, ds, 1),
          check_type |-> "strand_length"]

\* SequenceValidator.validate_strand
validate_strand(strand, ds) ==
    IF strand.sequence = <<>>
    THEN [k \in {"sequence"} |-> [passed |-> FALSE, check_type |-> "sequence"]]
    ELSE LET basic == [k \in {"length"} |-> validate_strand_length(strand, ds)]
         IN  IF Provided(ds)
             THEN basic @@ [k \in {"composition"} |-> validate_domain_composition(strand, ds)]
             ELSE basic

InitValidator == DesignIdle /\ NothingElseRan

\* the single-strand Oracles of the model: primer3 answers every sequence, or
\* raises for one
StrandOracles == {[raises |-> {}], [raises |-> {<<"C", "G">>}]}

\* the first measurement validate_strand asks primer3 for is the melting
\* temperature, of a sequence of two bases or more; its exception leaves
\* validate_strand, which has no handler
StrandRaises(oracle, sequence) ==
    /\ Len(sequence) >= 2
    /\ UpperSeq(sequence) \in oracle.raises

ValidateStrand ==
    /\ call_args = NoCall
    /\ \E strand \in ValidatorStrands, ds \in ValidatorDomainLists, no_list \in BOOLEAN,
          oracle \in StrandOracles :
        /\ no_list => ds = None
        /\ call_args' = [op |-> "validate_strand", strand |-> strand, domains |-> ds,
                         no_list |-> no_list, oracle |-> oracle]
        /\ call_result' =
            IF StrandRaises(oracle, strand.sequence)
            THEN [op |-> "validate_strand", raised |-> TRUE, results |-> <<>>]
            ELSE [op |-> "validate_strand", raised |-> FALSE,
                  results |-> validate_strand(strand, ds)]
    /\ UNCHANGED <<design_vars, builder_vars>>


(***************************************************************************)
(* validate_cross_interactions.                                            *)
(***************************************************************************)
\* the ids a request gives its strands: 0 is what validate_design gives a
\* strand that comes without one
CrossStrandIds == {0, 1, 2}

\* a strand has no sequence, one of two sequences, or one too short to measure
ShortStrand == <<"A", "C">>

CrossStrands == [id : CrossStrandIds, sequence : {<<>>, S1, S2, ShortStrand}]

CrossStrandLists == UNION {[1..n -> CrossStrands] : n \in 0..MaxStrands}

\* the validator's measurements are kept to the thousandth of a kcal/mol: the
\* report formats them to two places, the comparison with the floor does not
InThousandths(kcal) == kcal * 1000

\* the floors the request configures: the defaults, or lower ones
ValidatorSettings ==
    {[crossDimerDgMin |-> InThousandths(crossDimerDgMin),
      threePrimeCrossDimerDgMin |-> InThousandths(threePrimeCrossDimerDgMin)],
     [crossDimerDgMin |-> InThousandths(crossDimerDgMin - 2),
      threePrimeCrossDimerDgMin |-> InThousandths(threePrimeCrossDimerDgMin - 2)]}

\* every Oracle input two strands can lead to
CrossKeys ==
    UNION {PairKeys(seq1, seq2) : seq1 \in {S1, S2}, seq2 \in {S1, S2}}

\* values of the validator's Oracle, in thousandths: below the default floors,
\* a hair below the full-length floor, on it, between the floors, above both
ValidatorDgValues == {-6000, -5004, -5000, -3000, 0}

\* the Oracles of the model: the heterodimer dG of every pair, and the pairs
\* for which primer3 raises.  One value for every pair, or a value that tells
\* a sequence measured against itself from two different sequences, or an
\* Oracle that raises for S1 against S2
ValidatorOracles ==
    {[dg |-> [k \in CrossKeys |-> v], raises |-> {}] : v \in ValidatorDgValues}
        \cup {[dg |-> [k \in CrossKeys |-> IF k[1] = k[2] THEN -6000 ELSE -3000],
               raises |-> {}]}
        \cup {[dg |-> [k \in CrossKeys |-> 0], raises |-> {OracleKey(S1, S2)}]}

\* the measurements a pair needs that primer3 raises for
PairRaises(oracle, seq1, seq2) ==
    \E k \in PairKeys(seq1, seq2) :
        /\ Len(k[1]) >= MinDimerLength
        /\ Len(k[2]) >= MinDimerLength
        /\ k \in oracle.raises

\* f"{x:.2f}": the value in hundredths, rounded to the nearest, a tie to even
FormatTwoPlaces(thousandths) ==
    LET q == thousandths \div 10
        r == thousandths % 10
    IN  IF r < 5 THEN q
        ELSE IF r > 5 THEN q + 1
        ELSE IF q % 2 = 0 THEN q ELSE q + 1

\* the mutant passes only a value above the floor
PassesAboveFloor(delta_g, floor) == delta_g > floor

\* cross_dimer_dg >= self.settings.crossDimerDgMin
PassesFloor(delta_g, floor) == delta_g >= floor

\* SequenceValidator._validate_strand_pair, for a pair primer3 answers
validate_strand_pair(table, settings, strand1, strand2) ==
    LET cross_dimer_dg == DgOf(table, strand1.sequence, strand2.sequence)
        three_prime_cross_dg ==
            DgOf(table, ThreePrime(strand1.sequence, threePrimeLength),
                        ThreePrime(strand2.sequence, threePrimeLength))
    IN  [crossDimerDg |->
            [passed |-> PassesFloor(cross_dimer_dg, settings.crossDimerDgMin),
             value |-> [hundredths |-> FormatTwoPlaces(cross_dimer_dg),
                        unit |-> "kcal/mol"],
             check_type |-> "cross_dimer_dg"],
         threePrimeCrossDimerDg |->
            [passed |-> PassesFloor(three_prime_cross_dg,
                                    settings.threePrimeCrossDimerDgMin),
             value |-> [hundredths |-> FormatTwoPlaces(three_prime_cross_dg),
                        unit |-> "kcal/mol"],
             check_type |-> "three_prime_cross_dimer_dg"]]

\* the pairs the two loops visit: i before j, both strands with a sequence
VisitedPairs(strands) ==
    {p \in (DOMAIN strands) \X (DOMAIN strands) :
        /\ p[1] < p[2]
        /\ strands[p[1]].sequence # <<>>
        /\ strands[p[2]].sequence # <<>>}

\* pair_key = (strand1.id, strand2.id)
pair_key(strands, p) == <<strands[p[1]].id, strands[p[2]].id>>

\* p is visited before q, or is q
VisitedBefore(p, q) == p[1] < q[1] \/ (p[1] = q[1] /\ p[2] <= q[2])

\* SequenceValidator.validate_cross_interactions: cross_results[pair_key] is
\* assigned pair after pair, so a key keeps the result of the last pair under it
validate_cross_interactions(table, settings, strands) ==
    LET pairs == VisitedPairs(strands)
        keys == {pair_key(strands, p) : p \in pairs}
    IN  [k \in keys |->
            LET under == {p \in pairs : pair_key(strands, p) = k}
                last == CHOOSE p \in under : \A q \in under : VisitedBefore(q, p)
            IN  validate_strand_pair(table, settings, strands[last[1]], strands[last[2]])]

\* an exception of primer3 leaves _validate_strand_pair and
\* validate_cross_interactions, which have no handler: the call raises
CrossInteractionsRaise(oracle, strands) ==
    \E p \in VisitedPairs(strands) :
        PairRaises(oracle, strands[p[1]].sequence, strands[p[2]].sequence)

ValidateCrossInteractions ==
    /\ call_args = NoCall
    /\ \E strands \in CrossStrandLists, settings \in ValidatorSettings,
          oracle \in ValidatorOracles :
        /\ call_args' = [op |-> "validate_cross_interactions", strands |-> strands,
                         settings |-> settings, oracle |-> oracle]
        /\ call_result' =
            IF CrossInteractionsRaise(oracle, strands)
            THEN [op |-> "validate_cross_interactions", raised |-> TRUE,
                  cross_results |-> <<>>]
            ELSE [op |-> "validate_cross_interactions", raised |-> FALSE,
                  cross_results |->
                        validate_cross_interactions(oracle.dg, settings, strands)]
    /\ UNCHANGED <<design_vars, builder_vars>>

(***************************************************************************)
(* get_validation_summary: the classification of one dictionary of check   *)
(* results.  Of a ValidationResult the summary reads passed alone, so a    *)
(* dictionary is a function from check names to passed.                    *)
(***************************************************************************)
\* the names validate_strand gives its checks of a strand with a sequence
StrandCheckNames ==
    {"length", "gcContent", "meltingTemp", "hairpin", "selfDimer", "patterns",
     "threePrimeHairpin", "threePrimeSelfDimer", "threePrimeGCClamp"}

\* the names _validate_strand_pair gives its checks
PairCheckNames == {"crossDimerDg", "threePrimeCrossDimerDg"}

\* the dictionaries the validator hands out: of a strand, without or with the
\* composition check, of a strand without a sequence, of a pair; and the empty one
SummaryInputs ==
    [StrandCheckNames -> BOOLEAN]
        \cup [StrandCheckNames \cup {"composition"} -> BOOLEAN]
        \cup {[k \in {"sequence"} |-> FALSE]}
        \cup [PairCheckNames -> BOOLEAN]
        \cup {[k \in {} |-> FALSE]}

\* ['threePrimeHairpin', 'threePrimeSelfDimer', 'threePrimeCrossDimerDg']
critical_checks == {"threePrimeHairpin", "threePrimeSelfDimer", "threePrimeCrossDimerDg"}

\* SequenceValidator._count_passed_checks
count_passed_checks(results) == Cardinality({k \in DOMAIN results : results[k]})

\* SequenceValidator.get_validation_summary; the two lists are kept as sets, and
\* pass_rate as the fraction it is computed from
get_validation_summary(results) ==
    LET total_checks == Cardinality(DOMAIN results)
        passed_checks == count_passed_checks(results)
        failed_checks == total_checks - passed_checks
        critical_failures == {k \in DOMAIN results : ~results[k] /\ k \in critical_checks}
        warnings == {k \in DOMAIN results : ~results[k] /\ k \notin critical_checks}
    IN  [total_checks |-> total_checks,
         passed |-> passed_checks,
         failed |-> failed_checks,
         pass_rate |-> IF total_checks > 0
                       THEN [numerator |-> passed_checks * 100,
                             denominator |-> total_checks]
                       ELSE [numerator |-> 0, denominator |-> 1],
         critical_failures |-> critical_failures,
         warnings |-> warnings,
         overall_status |-> IF failed_checks = 0 THEN "PASS"
                            ELSE IF critical_failures # {} THEN "CRITICAL"
                            ELSE "WARNING"]

GetValidationSummary ==
    /\ call_args = NoCall
    /\ \E results \in SummaryInputs :
        /\ call_args' = [op |-> "get_validation_summary", results |-> results]
        /\ call_result' = [op |-> "get_validation_summary",
                           summary |-> get_validation_summary(results)]
    /\ UNCHANGED <<design_vars, builder_vars>>

NextValidator ==
    \/ ValidateStrand
    \/ ValidateCrossInteractions
    \/ GetValidationSummary

SpecValidator == InitValidator /\ [][NextValidator]_vars


\* the concatenation, in domainIds order, of the sequences of the strand's
\* domains: of those the list holds (the one of an id is the list's last of it)
RECURSIVE Concatenation(_, _)
Concatenation(domainIds, ds) ==
    IF domainIds = <<>> THEN <<>>
    ELSE LET id == Head(domainIds)
             named == {k \in DOMAIN ds : ds[k].id = id}
             here == IF named = {} THEN <<>>
                     ELSE ds[CHOOSE k \in named : \A m \in named : m <= k].sequence
         IN  here \o Concatenation(Tail(domainIds), ds)

\* the strand of the call has a sequence, and it is not the concatenation
Miscomposed ==
    /\ call_result.op = "validate_strand"
    /\ call_args.strand.sequence # <<>>
    /\ call_args.strand.sequence #
            Concatenation(call_args.strand.domainIds, call_args.domains)

ReportsCompositionFailed(results) ==
    /\ "composition" \in DOMAIN results
    /\ results["composition"].check_type = "composition"
    /\ results["composition"].passed = FALSE

(***************************************************************************)
(* C19: validateStrand reports a result with check_type "composition" and  *)
(* passed = false for every strand whose (non-empty) sequence does not     *)
(* equal the concatenation, in domainIds order, of its domains' sequences, *)
(* whatever list of domains is supplied.                                   *)
(***************************************************************************)
C19_MiscomposedAlwaysReported ==
    (Miscomposed /\ ~call_result.raised) => ReportsCompositionFailed(call_result.results)

\* C19 as the code has it: the composition check is made when the list of
\* domains holds a domain; with no list or an empty one the report has no
\* "composition" entry at all, and a call primer3 raises in reports nothing
C19_MiscomposedReportedWhenDomainsGiven ==
    call_result.op = "validate_strand" =>
        /\ call_result.raised => call_result.results = <<>>
        /\ (~call_result.raised /\ Miscomposed /\ Provided(call_args.domains))
                => ReportsCompositionFailed(call_result.results)
        /\ ~Provided(call_args.domains) => "composition" \notin DOMAIN call_result.results
        /\ (/\ ~call_result.raised
            /\ call_args.strand.sequence # <<>>
            /\ Provided(call_args.domains)
            /\ ~Miscomposed)
                => /\ "composition" \in DOMAIN call_result.results
                   /\ call_result.results["composition"].passed = TRUE

\* two domains share an id, and the strand holds the sequence of the first
C19_Witness ==
    /\ Miscomposed
    /\ Len(call_args.domains) = 2
    /\ call_args.domains[1].id = call_args.domains[2].id
    /\ call_args.strand.domainIds = <<call_args.domains[1].id>>
    /\ call_args.strand.sequence = call_args.domains[1].sequence
    /\ ReportsCompositionFailed(call_result.results)

(***************************************************************************)
(* C20: validateCrossInteractions returns one entry for every unordered    *)
(* pair of strands in the input that both have non-empty sequences, each   *)
(* entry holding that pair's full-length and 3'-window cross-dimer dG      *)
(* checks; the number of entries equals the number of such pairs.          *)
(***************************************************************************)
C20_OneEntryPerPair ==
    (call_result.op = "validate_cross_interactions" /\ ~call_result.raised) =>
        LET strands == call_args.strands
            pairs == {p \in (DOMAIN strands) \X (DOMAIN strands) :
                        /\ p[1] < p[2]
                        /\ strands[p[1]].sequence # <<>>
                        /\ strands[p[2]].sequence # <<>>}
            results == call_result.cross_results
        IN  /\ Cardinality(DOMAIN results) = Cardinality(pairs)
            /\ \A p \in pairs :
                LET key == <<strands[p[1]].id, strands[p[2]].id>>
                IN  /\ key \in DOMAIN results
                    /\ results[key].crossDimerDg.value.hundredths =
                            FormatTwoPlaces(DgOf(call_args.oracle.dg,
                                strands[p[1]].sequence, strands[p[2]].sequence))
                    /\ results[key].threePrimeCrossDimerDg.value.hundredths =
                            FormatTwoPlaces(DgOf(call_args.oracle.dg,
                                ThreePrime(strands[p[1]].sequence, threePrimeLength),
                                ThreePrime(strands[p[2]].sequence, threePrimeLength)))


\* the pairs of a call whose two strands both hold a sequence long enough to be
\* measured, and whose entry no other pair of the call writes
MeasuredPairs ==
    LET strands == call_args.strands
    IN  {p \in VisitedPairs(strands) :
            /\ Len(strands[p[1]].sequence) >= MinDimerLength
            /\ Len(strands[p[2]].sequence) >= MinDimerLength
            /\ \A q \in VisitedPairs(strands) :
                    pair_key(strands, q) = pair_key(strands, p) => q = p}

\* what the Oracle answers for the full-length pair, in thousandths
MeasuredCrossDimerDg(p) ==
    call_args.oracle.dg[OracleKey(call_args.strands[p[1]].sequence,
                                  call_args.strands[p[2]].sequence)]

(***************************************************************************)
(* C21: for two strands whose measured cross-dimer dG is more negative     *)
(* than the configured floor crossDimerDgMin, the pair's crossDimerDg      *)
(* check has passed = false and its result carries the measured dG (as the *)
(* report writes it: to the nearest hundredth of a kcal/mol); when the     *)
(* measured dG is at or above the floor the check has passed = true.       *)
(***************************************************************************)
C21_CrossDimerCheckFollowsFloor ==
    (call_result.op = "validate_cross_interactions" /\ ~call_result.raised) =>
        \A p \in MeasuredPairs :
            LET check == call_result.cross_results[pair_key(call_args.strands, p)].crossDimerDg
                measured == MeasuredCrossDimerDg(p)
                floor == call_args.settings.crossDimerDgMin
            IN  /\ measured < floor => check.passed = FALSE
                /\ measured >= floor => check.passed = TRUE
                /\ (10 * check.value.hundredths - measured) \in -5..5
                /\ check.value.unit = "kcal/mol"
                /\ check.check_type = "cross_dimer_dg"

\* a pair measured a hair below the default floor fails, and the report writes
\* the value as -5.00; a pair measured on the floor passes
C21_Witness ==
    /\ call_result.op = "validate_cross_interactions"
    /\ ~call_result.raised
    /\ call_args.settings.crossDimerDgMin = InThousandths(crossDimerDgMin)
    /\ \E p \in MeasuredPairs :
        /\ MeasuredCrossDimerDg(p) = -5004
        /\ call_result.cross_results[pair_key(call_args.strands, p)].crossDimerDg
                .passed = FALSE
        /\ call_result.cross_results[pair_key(call_args.strands, p)].crossDimerDg
                .value.hundredths = -500

\* the checks of the 3' region, and the cross-dimer checks
ThreePrimeRegionChecks ==
    {"threePrimeHairpin", "threePrimeSelfDimer", "threePrimeGCClamp",
     "threePrimeCrossDimerDg"}

CrossDimerChecks == {"crossDimerDg", "threePrimeCrossDimerDg"}

FailedChecks(results) == {k \in DOMAIN results : ~results[k]}

(***************************************************************************)
(* C22: the classification of a set of check results is PASS when no check *)
(* fails, CRITICAL if any 3'-region check or any cross-dimer check fails,  *)
(* and WARNING otherwise (some check fails but none of those).             *)
(***************************************************************************)
C22_ClassificationByRegion ==
    call_result.op = "get_validation_summary" =>
        LET failed == FailedChecks(call_args.results)
            status == call_result.summary.overall_status
        IN  /\ failed = {} => status = "PASS"
            /\ failed \cap (ThreePrimeRegionChecks \cup CrossDimerChecks) # {}
                    => status = "CRITICAL"
            /\ (failed # {} /\ failed \cap (ThreePrimeRegionChecks \cup CrossDimerChecks) = {})
                    => status = "WARNING"

\* the sum, over the ids of domainIds one after the other, of the declared
\* length of the domain the list holds for the id (0 for an id the list lacks)
RECURSIVE DeclaredLengthSum(_, _)
DeclaredLengthSum(domainIds, ds) ==
    IF domainIds = <<>> THEN 0
    ELSE LET id == Head(domainIds)
             named == {k \in DOMAIN ds : ds[k].id = id}
             here == IF named = {} THEN 0
                     ELSE ds[CHOOSE k \in named : \A m \in named : m <= k].length
         IN  here + DeclaredLengthSum(Tail(domainIds), ds)

(***************************************************************************)
(* C23: the strand length check passes exactly when the strand's sequence  *)
(* length equals the sum of the declared lengths of the domains listed in  *)
(* strand.domainIds (each occurrence counted, in order); in particular it  *)
(* passes for a strand whose sequence is the concatenation of its domains' *)
(* sequences when every domain's sequence has its declared length.         *)
(* Stated for the calls that hand validate_strand a list with a domain.    *)
(***************************************************************************)
C23_LengthCheckSumsDomainIds ==
    (/\ call_result.op = "validate_strand"
     /\ ~call_result.raised
     /\ call_args.strand.sequence # <<>>
     /\ Provided(call_args.domains)) =>
        LET strand == call_args.strand
            ds == call_args.domains
        IN  /\ call_result.results["length"].passed =
                    (Len(strand.sequence) = DeclaredLengthSum(strand.domainIds, ds))
            /\ (/\ strand.sequence = Concatenation(strand.domainIds, ds)
                /\ \A k \in DOMAIN ds : Len(ds[k].sequence) = ds[k].length)
                    => call_result.results["length"].passed = TRUE

\* primer3 raised for a measurement of the call
OracleRaisedInCall ==
    \/ /\ call_args.op = "validate_strand"
       /\ StrandRaises(call_args.oracle, call_args.strand.sequence)
    \/ /\ call_args.op = "validate_cross_interactions"
       /\ CrossInteractionsRaise(call_args.oracle, call_args.strands)

\* the pairs of the call primer3 answers every measurement of
AnsweredPairs ==
    {p \in VisitedPairs(call_args.strands) :
        ~PairRaises(call_args.oracle, call_args.strands[p[1]].sequence,
                                      call_args.strands[p[2]].sequence)}

(***************************************************************************)
(* C24: an OracleError raised by a thermodynamic calculation during        *)
(* validation is recorded as one failed check in the report and does not   *)
(* abort the report: all other checks of the strand and all other strand   *)
(* pairs are still reported.                                               *)
(***************************************************************************)
C24_OracleErrorDoesNotAbortReport ==
    OracleRaisedInCall =>
        /\ ~call_result.raised
        /\ call_args.op = "validate_strand" =>
                /\ "length" \in DOMAIN call_result.results
                /\ \E k \in DOMAIN call_result.results : ~call_result.results[k].passed
        /\ call_args.op = "validate_cross_interactions" =>
                \A p \in AnsweredPairs :
                    pair_key(call_args.strands, p) \in DOMAIN call_result.cross_results

\* a strand of the request names an id no domain of the request has
InvalidInput ==
    /\ call_args.op = "generate_design"
    /\ \E i \in DOMAIN call_args.strands_data :
        \E k \in DOMAIN call_args.strands_data[i] :
            \A d \in DOMAIN request : request[d].id # call_args.strands_data[i][k]

(***************************************************************************)
(* C25: a design request in which a strand references a domain id that     *)
(* matches no supplied domain (InvalidInput) is rejected with an error     *)
(* before any sequence is drawn from the Pool; no design result is         *)
(* returned for it.                                                        *)
(***************************************************************************)
C25_InvalidInputRejectedBeforeSearch ==
    InvalidInput =>
        /\ sequences = <<>>
        /\ used_sequences = {}
        /\ \A i \in DOMAIN domains : domains[i].sequence = <<>>
        /\ pc = "responded" => "error" \in DOMAIN response

(***************************************************************************)
(* C26: there is no backtracking in fully-orthogonal assignment: once a    *)
(* sequence is committed to a domain, that domain's sequence is never      *)
(* changed or withdrawn by any later step of the same call, and domains    *)
(* are committed strictly in input order (domain k is committed only after *)
(* domains 1..k-1).                                                        *)
(***************************************************************************)
C26_NoBacktracking ==
    [][(calls = 1 /\ ~has_complement_domains(request) /\ domains # <<>>) =>
        /\ DOMAIN domains' = DOMAIN domains
        /\ \A k \in DOMAIN domains :
            /\ domains[k].sequence # <<>> => domains'[k].sequence = domains[k].sequence
            /\ (domains[k].sequence = <<>> /\ domains'[k].sequence # <<>>)
                    => \A j \in 1..(k - 1) : domains[j].sequence # <<>>]_vars

\* the first domain holds its sequence, and the call has since rejected a
\* candidate of the second
C26_Witness ==
    /\ ~has_complement_domains(request)
    /\ pc = "cross_validation"
    /\ idx = 2
    /\ attempt = 1
    /\ domains[1].sequence # <<>>
    /\ domains[2].sequence = <<>>
    /\ Rejected # {}

\* the workers of a run are at work: main waits in pool.map
WorkersAtWork == builder_pc = "generating" /\ builder_pc' = "generating"

(***************************************************************************)
(* C27: Pool Builder workers for different lengths operate on disjoint     *)
(* buckets with no shared mutable state: every sequence returned by the    *)
(* worker for length L has length L, results are merged only after the     *)
(* workers complete, and the final Pool content for each length is         *)
(* independent of the order in which the workers ran or finished: a step   *)
(* of one worker changes no other worker and no bucket, and the bucket of  *)
(* a length after the merge is what it held before together with what the  *)
(* worker of that length returned.                                         *)
(***************************************************************************)
C27_WorkersOnDisjointBuckets ==
    /\ [](\A l \in DOMAIN workers :
            /\ \A k \in DOMAIN workers[l].valid_sequences :
                    Len(workers[l].valid_sequences[k]) = l
            /\ \A s \in pool[l] : Len(s) = l)
    /\ [][/\ pool' # pool => \A l \in DOMAIN workers : workers[l].returned
          /\ WorkersAtWork =>
                /\ pool' = pool
                /\ \A l \in DOMAIN workers :
                    workers'[l] # workers[l] =>
                        /\ \A m \in DOMAIN workers \ {l} : workers'[m] = workers[m]
                        /\ \A s \in DOMAIN thermo' \ DOMAIN thermo : Len(s) = l
          /\ (builder_pc = "generating" /\ builder_pc' = "idle") =>
                \A l \in DOMAIN pool :
                    pool'[l] = pool[l] \cup
                        (IF l \in DOMAIN workers THEN Range(workers[l].valid_sequences)
                         ELSE {})]_vars

\* the worker of length 8 has returned its sequences while the worker of length
\* 7, which holds one, is still at work
C27_Witness ==
    /\ builder_pc = "generating"
    /\ DOMAIN workers = Lengths
    /\ workers[8].returned
    /\ workers[8].valid_sequences # <<>>
    /\ ~workers[7].returned
    /\ workers[7].valid_sequences # <<>>

(***************************************************************************)
(* C28: assignment never modifies the Pool: across any call of             *)
(* design_domain_sequences (success or failure, either mode) the stored    *)
(* set of every length is unchanged; committed and rejected candidates are *)
(* recorded only in the session's used set.                                *)
(***************************************************************************)
C28_AssignmentLeavesPoolUnchanged ==
    [][/\ pool' = pool
       /\ pc \in {"complements", "cross_validation"} =>
            /\ used_sequences \subseteq used_sequences'
            /\ sequences' # <<>> =>
                    /\ Range(sequences') \subseteq used_sequences'
                    /\ Range(sequences') \subseteq pool'[Len(sequences'[1])]]_vars

\* a call has returned after a commit and a rejection, and the pool still
\* holds the committed and the rejected sequence
C28_Witness ==
    /\ pc = "returned"
    /\ assigned_sequences # <<>>
    /\ Rejected # {}
    /\ \A s \in used_sequences : s \in pool[Len(s)]

(***************************************************************************)
(* C29: the sequences a Pool Builder worker returns for a length are       *)
(* pairwise distinct and disjoint from the sequences that already existed  *)
(* in the Pool for that length when the run started, so after the merge    *)
(* the size of the length's set equals the previous size plus the number   *)
(* returned and never exceeds the per-length target (existing + needed).   *)
(***************************************************************************)
C29_ReturnedDistinctAndNew ==
    /\ \A l \in DOMAIN pool : Cardinality(pool[l]) <= max_sequences_per_length
    /\ \A l \in DOMAIN workers :
        LET w == workers[l]
        IN  /\ \A i, j \in DOMAIN w.valid_sequences :
                    i # j => w.valid_sequences[i] # w.valid_sequences[j]
            /\ Range(w.valid_sequences) \cap w.existing_set = {}
            /\ Cardinality(w.existing_set) + w.target_count = max_sequences_per_length
            /\ ResultsSaved =>
                /\ Cardinality(pool[l]) =
                        Cardinality(w.existing_set) + Len(w.valid_sequences)
                /\ Cardinality(pool[l]) <= Cardinality(w.existing_set) + w.target_count

\* the second run found a sequence in the pool, its worker generated that
\* sequence or its own again and skipped it, and returned one new sequence
C29_Witness ==
    /\ ResultsSaved
    /\ runs = 2
    /\ \E l \in DOMAIN workers :
        /\ Cardinality(workers[l].existing_set) = 1
        /\ Len(workers[l].valid_sequences) = 1
        /\ workers[l].attempts > 1
        /\ Cardinality(pool[l]) = 2

\* the Oracle raised for the candidate of this step: the step asks the Oracle
\* about a sequence for the first time, and the answer is an exception
OracleRaisedInStep ==
    \E s \in DOMAIN thermo' \ DOMAIN thermo : thermo'[s].raises

(***************************************************************************)
(* C30: if the Thermodynamic Oracle raises during the Filter Rule Engine's *)
(* evaluation of a candidate, validate_sequence returns False: a candidate *)
(* whose thermodynamic values could not be computed is never accepted into *)
(* the Pool, and the builder loop continues with the next candidate.       *)
(***************************************************************************)
C30_OracleErrorRejectsCandidate ==
    /\ [](/\ \A l \in Lengths : \A s \in BuilderCandidates[l] :
                ~validate_sequence(OracleRaises, s)
          /\ \A l \in DOMAIN pool : \A s \in pool[l] :
                s \in DOMAIN thermo /\ ~thermo[s].raises
          /\ \A l \in DOMAIN workers : \A s \in Range(workers[l].valid_sequences) :
                s \in DOMAIN thermo /\ ~thermo[s].raises)
    /\ [][\A l \in DOMAIN workers :
            (WorkersAtWork /\ workers'[l] # workers[l] /\ OracleRaisedInStep) =>
                /\ workers'[l].valid_sequences = workers[l].valid_sequences
                /\ workers'[l].attempts = workers[l].attempts + 1
                /\ ~workers'[l].returned
                /\ pool' = pool]_vars

\* the Oracle raised for one of the three candidates of a worker, which went on
\* and collected the two others: the loop stops at the second sequence, so the
\* candidate it stopped at came after the exception
C30_Witness ==
    /\ runs = 0
    /\ builder_pc = "generating"
    /\ \E l \in DOMAIN workers :
        /\ workers[l].target_count = 2
        /\ Len(workers[l].valid_sequences) = 2
        /\ workers[l].attempts = 3
        /\ Cardinality({s \in DOMAIN thermo : Len(s) = l}) = 3
        /\ \E s \in DOMAIN thermo : Len(s) = l /\ thermo[s].raises

====
